---- MODULE Spec2Model ----
(***************************************************************************)
(* Verification model of the picoquic receive path: packet number          *)
(* reconstruction, packet protection removal with 1-RTT key rotation, and  *)
(* the dispatch of coalesced segments (picoquic_incoming_packet).          *)
(***************************************************************************)
EXTENDS Integers, Sequences, FiniteSets, TLC

VARIABLES pnx, path_x, quic, cnxs, sp_queue, rx, last

vars == <<pnx, path_x, quic, cnxs, sp_queue, rx, last>>

(* The value of a C local variable, computed once: TheOne({e : x \in {v}}) is e
   with x standing for the value of v *)
TheOne(S) == CHOOSE r \in S : TRUE

(***************************************************************************)
(* uint64_t arithmetic.  A uint64_t is a function from the byte index      *)
(* 0..7 (0 = least significant) to 0..255; every operation is modulo 2^64  *)
(* as in C.                                                                *)
(***************************************************************************)
U64Idx == 0..7

(* the uint64_t with the given bytes, least significant first *)
U64Bytes(b0, b1, b2, b3, b4, b5, b6, b7) ==
    (0 :> b0) @@ (1 :> b1) @@ (2 :> b2) @@ (3 :> b3) @@ (4 :> b4) @@ (5 :> b5)
    @@ (6 :> b6) @@ (7 :> b7)

U64Of(n) ==
    U64Bytes(n % 256, (n \div 256) % 256, (n \div 65536) % 256, (n \div 16777216) % 256,
             0, 0, 0, 0)

U64At(a, i) == IF i < 0 THEN 0 ELSE a[i]

U64Shl8(a, k) ==
    U64Bytes(U64At(a, 0 - k), U64At(a, 1 - k), U64At(a, 2 - k), U64At(a, 3 - k),
             U64At(a, 4 - k), U64At(a, 5 - k), U64At(a, 6 - k), U64At(a, 7 - k))

U64Add(a, b) ==
    LET s0 == a[0] + b[0]
        s1 == a[1] + b[1] + (s0 \div 256)
        s2 == a[2] + b[2] + (s1 \div 256)
        s3 == a[3] + b[3] + (s2 \div 256)
        s4 == a[4] + b[4] + (s3 \div 256)
        s5 == a[5] + b[5] + (s4 \div 256)
        s6 == a[6] + b[6] + (s5 \div 256)
        s7 == a[7] + b[7] + (s6 \div 256)
    IN  U64Bytes(s0 % 256, s1 % 256, s2 % 256, s3 % 256, s4 % 256, s5 % 256, s6 % 256,
                 s7 % 256)

U64Not(a) ==
    U64Bytes(255 - a[0], 255 - a[1], 255 - a[2], 255 - a[3], 255 - a[4], 255 - a[5],
             255 - a[6], 255 - a[7])

U64Sub(a, b) == U64Add(a, U64Add(U64Not(b), U64Of(1)))

U64Lt(a, b) == \E i \in U64Idx : a[i] < b[i] /\ \A j \in (i + 1)..7 : a[j] = b[j]

RECURSIVE BitAnd(_, _)
BitAnd(x, y) ==
    IF x = 0 \/ y = 0 THEN 0
    ELSE (x % 2) * (y % 2) + 2 * BitAnd(x \div 2, y \div 2)

BitOr(x, y) == x + y - BitAnd(x, y)

U64And(a, b) ==
    U64Bytes(BitAnd(a[0], b[0]), BitAnd(a[1], b[1]), BitAnd(a[2], b[2]), BitAnd(a[3], b[3]),
             BitAnd(a[4], b[4]), BitAnd(a[5], b[5]), BitAnd(a[6], b[6]), BitAnd(a[7], b[7]))

U64Or(a, b) == U64Sub(U64Add(a, b), U64And(a, b))

(* ph->pnmask after pn_l bytes of packet number: all ones shifted left by 8*pn_l *)
PnMask(pn_l) == U64Shl8(U64Not(U64Of(0)), pn_l)

(***************************************************************************)
(* picoquic_get_packet_number64                                            *)
(***************************************************************************)
PnWrongTieBreak(highest, mask, pn) ==
    LET expected == U64Add(highest, U64Of(1))
        not_mask_plus_one == U64Add(U64Not(mask), U64Of(1))
        pn64 == U64Or(U64And(expected, mask), pn)
    IN  IF U64Lt(pn64, expected)
        THEN LET delta1 == U64Sub(expected, pn64)
                 delta2 == U64Sub(not_mask_plus_one, delta1)
             IN  IF U64Lt(delta1, delta2) THEN U64Add(pn64, not_mask_plus_one) ELSE pn64
        ELSE LET delta1 == U64Sub(pn64, expected)
                 delta2 == U64Sub(not_mask_plus_one, delta1)
             IN  IF ~U64Lt(delta1, delta2) /\ U64And(pn64, mask) # U64Of(0)
                 THEN U64Sub(pn64, not_mask_plus_one)
                 ELSE pn64

picoquic_get_packet_number64(highest, mask, pn) ==
    LET expected == U64Add(highest, U64Of(1))
        not_mask_plus_one == U64Add(U64Not(mask), U64Of(1))
        pn64 == U64Or(U64And(expected, mask), pn)
    IN  IF U64Lt(pn64, expected)
        THEN LET delta1 == U64Sub(expected, pn64)
                 delta2 == U64Sub(not_mask_plus_one, delta1)
             IN  IF U64Lt(delta2, delta1) THEN U64Add(pn64, not_mask_plus_one) ELSE pn64
        ELSE LET delta1 == U64Sub(pn64, expected)
                 delta2 == U64Sub(not_mask_plus_one, delta1)
             IN  IF ~U64Lt(delta1, delta2) /\ U64And(pn64, mask) # U64Of(0)
                 THEN U64Sub(pn64, not_mask_plus_one)
                 ELSE pn64

U64ToNat(a) == a[0] + 256 * a[1] + 65536 * a[2] + 16777216 * (a[3] % 128)

(***************************************************************************)
(* Codec helpers of util.c.  A buffer is a function from the byte offset   *)
(* to the byte at it; a pointer into it is an offset, NULL the null        *)
(* pointer.                                                                *)
(***************************************************************************)
NULL == 0 - 1

BitXor(x, y) == x + y - 2 * BitAnd(x, y)

(* returns at the first byte pair that differs *)
MemcmpEarlyExit(x, y, l) ==
    LET RECURSIVE Loop(_, _)
        Loop(i, left) ==
            IF left > 0
            THEN IF BitXor(x[i], y[i]) # 0
                 THEN [ret |-> BitXor(x[i], y[i]), read |-> i]
                 ELSE Loop(i + 1, left - 1)
            ELSE [ret |-> 0, read |-> i - 1]
    IN  Loop(1, l)

(* ret is the uint64_t returned, read the number of byte pairs the loop has read;
   the sum stays below 2^64 for every l below 2^56 *)
picoquic_constant_time_memcmp(x, y, l) ==
    LET RECURSIVE Loop(_, _, _)
        Loop(i, left, ret) ==
            IF left > 0 THEN Loop(i + 1, left - 1, ret + BitXor(x[i], y[i]))
            ELSE [ret |-> ret, read |-> i - 1]
    IN  Loop(1, l, 0)

(* the buffer with the bytes of the sequence w written from offset `at` *)
WriteBytes(buf, at, w) ==
    [i \in DOMAIN buf |-> IF i >= at /\ i < at + Len(w) THEN w[i - at + 1] ELSE buf[i]]

(* the pointer after the bytes written, or NULL, and the buffer as the call leaves it *)
picoquic_frames_varint_encode(buf, bytes, bytes_max, n64) ==
    LET w == IF U64Lt(n64, U64Of(16384))
             THEN IF U64Lt(n64, U64Of(64)) THEN <<n64[0]>>
                  ELSE <<BitOr(n64[1], 64), n64[0]>>
             ELSE IF U64Lt(n64, U64Of(1073741824))
                  THEN <<BitOr(n64[3], 128), n64[2], n64[1], n64[0]>>
                  ELSE <<BitOr(n64[7], 192), n64[6], n64[5], n64[4], n64[3], n64[2], n64[1],
                         n64[0]>>
    IN  IF bytes + Len(w) <= bytes_max
        THEN [bytes |-> bytes + Len(w), buf |-> WriteBytes(buf, bytes, w)]
        ELSE [bytes |-> NULL, buf |-> buf]

(* the decoder is not part of the sources at hand: the two high bits of the first
   byte give the length 1, 2, 4 or 8, the other bits and bytes the value, most
   significant first *)
picoquic_frames_varint_decode(buf, bytes, bytes_max) ==
    IF bytes >= bytes_max THEN [bytes |-> NULL, n64 |-> U64Of(0)]
    ELSE LET length == 2 ^ (buf[bytes] \div 64)
             At(k) == IF k = length - 1 THEN buf[bytes] % 64
                      ELSE IF k < length THEN buf[bytes + length - 1 - k] ELSE 0
         IN  IF bytes + length > bytes_max THEN [bytes |-> NULL, n64 |-> U64Of(0)]
             ELSE [bytes |-> bytes + length,
                   n64 |-> U64Bytes(At(0), At(1), At(2), At(3), At(4), At(5), At(6), At(7))]

(***************************************************************************)
(* The CUBIC congestion controller of a path (picoquic_cubic_notify).  The *)
(* windows cwin and ssthresh are uint64_t; cwin stays far below 2^31 and   *)
(* is held as a number, ssthresh takes the value 2^64 - 1 and is held as   *)
(* a uint64_t.  A double (K, W_max, W_last_max, W_reno, the cubic window)  *)
(* is held in fixed point, as the number of 1/FP units in it, rounded      *)
(* down: the rounding of IEEE 754 is not represented.                      *)
(***************************************************************************)
FP == 1024

PICOQUIC_MAX_PACKET_SIZE == 1536

PICOQUIC_CWIN_INITIAL == 10 * PICOQUIC_MAX_PACKET_SIZE

PICOQUIC_CWIN_MINIMUM == 2 * PICOQUIC_MAX_PACKET_SIZE

PICOQUIC_TARGET_RENO_RTT == 100000

PICOQUIC_MIN_MAX_RTT_SCOPE == 7

UINT64_MAX == U64Not(U64Of(0))

(* (double)UINT64_MAX / send_mtu, the W_max of a controller that never saw a loss:
   above every window of the model *)
HugeWindow == 2147483647

(* path_x of the specifications that have no congestion controller *)
NoPath == [notified |-> 0]

RttFilterZero ==
    [samples |-> [i \in 0..(PICOQUIC_MIN_MAX_RTT_SCOPE - 1) |-> 0], sample_current |-> 0,
     is_init |-> FALSE, sample_min |-> 0, sample_max |-> 0, rtt_filtered_min |-> 0,
     nb_rtt_excess |-> 0, last_rtt_sample_time |-> 0]

picoquic_cubic_init(p) ==
    [p EXCEPT !.cwin = PICOQUIC_CWIN_INITIAL,
              !.congestion_alg_state =
                  [alg_state |-> "slow_start", recovery_sequence |-> 0,
                   start_of_epoch |-> 0, previous_start_of_epoch |-> 0, K |-> 0,
                   W_max |-> HugeWindow, W_last_max |-> HugeWindow,
                   W_reno |-> PICOQUIC_CWIN_INITIAL * FP, ssthresh |-> UINT64_MAX,
                   rtt_filter |-> RttFilterZero]]

(* picoquic_cc_get_sequence_number and picoquic_cc_get_ack_number read the
   application packet context of the connection, held with the path here *)
picoquic_cc_get_sequence_number(p) == p.send_sequence

picoquic_cc_get_ack_number(p) == p.highest_acknowledged

picoquic_filter_rtt_min_max(rtt_track, rtt) ==
    LET x == rtt_track.sample_current
        samples == [rtt_track.samples EXCEPT ![x] = rtt]
        wrap == x + 1 >= PICOQUIC_MIN_MAX_RTT_SCOPE
        is_init == rtt_track.is_init \/ wrap
        x_max == IF is_init THEN PICOQUIC_MIN_MAX_RTT_SCOPE ELSE x + 1
        RECURSIVE Scan(_, _, _)
        Scan(i, lo, hi) ==
            IF i >= x_max THEN <<lo, hi>>
            ELSE IF samples[i] < lo THEN Scan(i + 1, samples[i], hi)
            ELSE IF samples[i] > hi THEN Scan(i + 1, lo, samples[i])
            ELSE Scan(i + 1, lo, hi)
        mm == Scan(1, samples[0], samples[0])
    IN  [rtt_track EXCEPT !.samples = samples,
                          !.sample_current = IF wrap THEN 0 ELSE x + 1,
                          !.is_init = is_init,
                          !.sample_min = mm[1], !.sample_max = mm[2]]

HystartTestOnLastSample(rtt_track, rtt_measurement, current_time) ==
    IF ~(current_time > rtt_track.last_rtt_sample_time + 1000)
    THEN [ret |-> 0, rtt_track |-> rtt_track]
    ELSE
    LET t1 == [picoquic_filter_rtt_min_max(rtt_track, rtt_measurement)
                   EXCEPT !.last_rtt_sample_time = current_time]
        t2 == IF t1.rtt_filtered_min = 0 \/ t1.rtt_filtered_min > t1.sample_max
              THEN [t1 EXCEPT !.rtt_filtered_min = t1.sample_max] ELSE t1
        delta_rtt == rtt_measurement - t2.rtt_filtered_min
    IN  IF ~t1.is_init THEN [ret |-> 0, rtt_track |-> t1]
        ELSE IF ~(rtt_measurement > t2.rtt_filtered_min) THEN [ret |-> 0, rtt_track |-> t2]
        ELSE IF delta_rtt * 4 > t2.rtt_filtered_min
        THEN [ret |-> IF t2.nb_rtt_excess + 1 >= PICOQUIC_MIN_MAX_RTT_SCOPE THEN 1 ELSE 0,
              rtt_track |-> [t2 EXCEPT !.nb_rtt_excess = @ + 1]]
        ELSE [ret |-> 0, rtt_track |-> [t2 EXCEPT !.nb_rtt_excess = 0]]

(* the result is [ret, rtt_track] *)
picoquic_hystart_test(rtt_track, rtt_measurement, current_time) ==
    IF ~(current_time > rtt_track.last_rtt_sample_time + 1000)
    THEN [ret |-> 0, rtt_track |-> rtt_track]
    ELSE
    LET t1 == [picoquic_filter_rtt_min_max(rtt_track, rtt_measurement)
                   EXCEPT !.last_rtt_sample_time = current_time]
        t2 == IF t1.rtt_filtered_min = 0 \/ t1.rtt_filtered_min > t1.sample_max
              THEN [t1 EXCEPT !.rtt_filtered_min = t1.sample_max] ELSE t1
        delta_rtt == t2.sample_min - t2.rtt_filtered_min
    IN  IF ~t1.is_init THEN [ret |-> 0, rtt_track |-> t1]
        ELSE IF ~(t2.sample_min > t2.rtt_filtered_min) THEN [ret |-> 0, rtt_track |-> t2]
        ELSE IF delta_rtt * 4 > t2.rtt_filtered_min
        THEN [ret |-> IF t2.nb_rtt_excess + 1 >= PICOQUIC_MIN_MAX_RTT_SCOPE THEN 1 ELSE 0,
              rtt_track |-> [t2 EXCEPT !.nb_rtt_excess = @ + 1]]
        ELSE [ret |-> 0, rtt_track |-> [t2 EXCEPT !.nb_rtt_excess = 0]]

(* x and the result in 1/FP *)
picoquic_cubic_root(x) ==
    LET RECURSIVE Down(_, _)
        Down(v, y) == IF v > x * 8 THEN Down(v \div 8, y \div 2) ELSE <<v, y>>
        RECURSIVE Up(_, _)
        Up(v, y) == IF v < x THEN Up(v * 8, y * 2) ELSE <<v, y>>
        RECURSIVE Newton(_, _)
        Newton(y, i) ==
            IF i >= 3 THEN y
            ELSE LET y2 == (y * y) \div FP
                     y3 == (y2 * y) \div FP
                 IN  Newton(y + ((x - y3) * FP) \div (3 * y2), i + 1)
        d == Down(FP, FP)
        u == Up(d[1], d[2])
    IN  Newton(u[2], 0)

(* W_cubic(t) = C * (t - K)^3 + W_max, in 1/FP of a packet; C is 0.4 *)
picoquic_cubic_W_cubic(cubic_state, current_time) ==
    LET delta_t_sec == ((current_time - cubic_state.start_of_epoch) * 128) \div 125000
                           - cubic_state.K
        cube == (((delta_t_sec * delta_t_sec) \div FP) * delta_t_sec) \div FP
    IN  (2 * cube) \div 5 + cubic_state.W_max

(* K = cubic_root(W_max * (1 - beta) / C), with beta 7/8 and C 0.4 *)
picoquic_cubic_enter_avoidance(cubic_state, current_time) ==
    [cubic_state EXCEPT !.K = picoquic_cubic_root((cubic_state.W_max * 5) \div 16),
                        !.alg_state = "congestion_avoidance",
                        !.start_of_epoch = current_time,
                        !.previous_start_of_epoch = current_time]

TimeoutEntersAvoidance(p, notification, current_time) ==
    LET cs0 == p.congestion_alg_state
        w == (p.cwin * FP) \div p.send_mtu
        W_max == IF w < cs0.W_last_max THEN (w * 7) \div 8 ELSE w
        ssthresh == (((W_max * 7) \div 8) * p.send_mtu) \div FP
        cs1 == [cs0 EXCEPT !.recovery_sequence = picoquic_cc_get_sequence_number(p),
                           !.W_max = W_max, !.W_last_max = w,
                           !.ssthresh = U64Of(ssthresh)]
    IN  IF ssthresh < PICOQUIC_CWIN_MINIMUM
        THEN [p EXCEPT !.cwin = PICOQUIC_CWIN_MINIMUM,
                       !.congestion_alg_state =
                           [cs1 EXCEPT !.alg_state = "slow_start",
                                       !.ssthresh = UINT64_MAX,
                                       !.previous_start_of_epoch = cs0.start_of_epoch,
                                       !.start_of_epoch = current_time,
                                       !.W_reno = PICOQUIC_CWIN_MINIMUM * FP]]
        ELSE IF FALSE
        THEN [p EXCEPT !.cwin = PICOQUIC_CWIN_MINIMUM,
                       !.congestion_alg_state =
                           [cs1 EXCEPT !.previous_start_of_epoch = cs0.start_of_epoch,
                                       !.start_of_epoch = current_time,
                                       !.alg_state = "slow_start"]]
        ELSE LET cs2 == picoquic_cubic_enter_avoidance(cs1, current_time)
                 win_cubic == (picoquic_cubic_W_cubic(cs2, current_time) * p.send_mtu) \div FP
                 W_reno == (p.cwin * FP) \div 2
             IN  [p EXCEPT !.cwin = IF win_cubic * FP > W_reno THEN win_cubic
                                    ELSE W_reno \div FP,
                           !.congestion_alg_state = [cs2 EXCEPT !.W_reno = W_reno]]

TimeoutEntersRecoveryState(p, notification, current_time) ==
    LET cs0 == p.congestion_alg_state
        w == (p.cwin * FP) \div p.send_mtu
        W_max == IF w < cs0.W_last_max THEN (w * 7) \div 8 ELSE w
        ssthresh == (((W_max * 7) \div 8) * p.send_mtu) \div FP
        cs1 == [cs0 EXCEPT !.recovery_sequence = picoquic_cc_get_sequence_number(p),
                           !.W_max = W_max, !.W_last_max = w,
                           !.ssthresh = U64Of(ssthresh)]
    IN  IF ssthresh < PICOQUIC_CWIN_MINIMUM
        THEN [p EXCEPT !.cwin = PICOQUIC_CWIN_MINIMUM,
                       !.congestion_alg_state =
                           [cs1 EXCEPT !.alg_state = "slow_start",
                                       !.ssthresh = UINT64_MAX,
                                       !.previous_start_of_epoch = cs0.start_of_epoch,
                                       !.start_of_epoch = current_time,
                                       !.W_reno = PICOQUIC_CWIN_MINIMUM * FP]]
        ELSE IF notification = "timeout"
        THEN [p EXCEPT !.cwin = PICOQUIC_CWIN_MINIMUM,
                       !.congestion_alg_state =
                           [cs1 EXCEPT !.previous_start_of_epoch = cs0.start_of_epoch,
                                       !.start_of_epoch = current_time,
                                       !.alg_state = "recovery"]]
        ELSE LET cs2 == picoquic_cubic_enter_avoidance(cs1, current_time)
                 win_cubic == (picoquic_cubic_W_cubic(cs2, current_time) * p.send_mtu) \div FP
                 W_reno == (p.cwin * FP) \div 2
             IN  [p EXCEPT !.cwin = IF win_cubic * FP > W_reno THEN win_cubic
                                    ELSE W_reno \div FP,
                           !.congestion_alg_state = [cs2 EXCEPT !.W_reno = W_reno]]

picoquic_cubic_enter_recovery(p, notification, current_time) ==
    LET cs0 == p.congestion_alg_state
        w == (p.cwin * FP) \div p.send_mtu
        W_max == IF w < cs0.W_last_max THEN (w * 7) \div 8 ELSE w
        ssthresh == (((W_max * 7) \div 8) * p.send_mtu) \div FP
        cs1 == [cs0 EXCEPT !.recovery_sequence = picoquic_cc_get_sequence_number(p),
                           !.W_max = W_max, !.W_last_max = w,
                           !.ssthresh = U64Of(ssthresh)]
    IN  IF ssthresh < PICOQUIC_CWIN_MINIMUM
        THEN [p EXCEPT !.cwin = PICOQUIC_CWIN_MINIMUM,
                       !.congestion_alg_state =
                           [cs1 EXCEPT !.alg_state = "slow_start",
                                       !.ssthresh = UINT64_MAX,
                                       !.previous_start_of_epoch = cs0.start_of_epoch,
                                       !.start_of_epoch = current_time,
                                       !.W_reno = PICOQUIC_CWIN_MINIMUM * FP]]
        ELSE IF notification = "timeout"
        THEN [p EXCEPT !.cwin = PICOQUIC_CWIN_MINIMUM,
                       !.congestion_alg_state =
                           [cs1 EXCEPT !.previous_start_of_epoch = cs0.start_of_epoch,
                                       !.start_of_epoch = current_time,
                                       !.alg_state = "slow_start"]]
        ELSE LET cs2 == picoquic_cubic_enter_avoidance(cs1, current_time)
                 win_cubic == (picoquic_cubic_W_cubic(cs2, current_time) * p.send_mtu) \div FP
                 W_reno == (p.cwin * FP) \div 2
             IN  [p EXCEPT !.cwin = IF win_cubic * FP > W_reno THEN win_cubic
                                    ELSE W_reno \div FP,
                           !.congestion_alg_state = [cs2 EXCEPT !.W_reno = W_reno]]

SpuriousKeepsWmax(p, current_time) ==
    LET cs0 == p.congestion_alg_state
        cs1 == picoquic_cubic_enter_avoidance(cs0, cs0.previous_start_of_epoch)
        W_reno == picoquic_cubic_W_cubic(cs1, current_time) * p.send_mtu
    IN  [p EXCEPT !.cwin = W_reno \div FP,
                  !.congestion_alg_state =
                      [cs1 EXCEPT !.W_reno = W_reno,
                                  !.ssthresh = U64Of((((cs1.W_max * 7) \div 8) * p.send_mtu)
                                                         \div FP)]]

picoquic_cubic_correct_spurious(p, current_time) ==
    LET cs0 == p.congestion_alg_state
        cs1 == picoquic_cubic_enter_avoidance([cs0 EXCEPT !.W_max = cs0.W_last_max],
                                              cs0.previous_start_of_epoch)
        W_reno == picoquic_cubic_W_cubic(cs1, current_time) * p.send_mtu
    IN  [p EXCEPT !.cwin = W_reno \div FP,
                  !.congestion_alg_state =
                      [cs1 EXCEPT !.W_reno = W_reno,
                                  !.ssthresh = U64Of((((cs1.W_max * 7) \div 8) * p.send_mtu)
                                                         \div FP)]]

(* the test of the three loss notifications (ecn_ec, repeat, timeout), the same in
   every state of the algorithm *)
LossIsNewByTimeOnly(p, current_time) ==
    current_time - p.congestion_alg_state.start_of_epoch > p.smoothed_rtt

LossIsNew(p, current_time) ==
    \/ current_time - p.congestion_alg_state.start_of_epoch > p.smoothed_rtt
    \/ p.congestion_alg_state.recovery_sequence <= picoquic_cc_get_ack_number(p)

SlowStartWithoutRttScaling(p, nb_bytes_acknowledged, current_time) ==
    LET cs == p.congestion_alg_state
        cwin == p.cwin + nb_bytes_acknowledged
    IN  IF ~U64Lt(U64Of(cwin), cs.ssthresh)
        THEN [p EXCEPT !.cwin = cwin,
                       !.congestion_alg_state =
                           picoquic_cubic_enter_avoidance(
                               [cs EXCEPT !.W_reno = (cwin * FP) \div 2], current_time)]
        ELSE [p EXCEPT !.cwin = cwin]

(* case picoquic_cubic_alg_slow_start, acknowledgement *)
SlowStartAcknowledgement(p, nb_bytes_acknowledged, current_time) ==
    LET cs == p.congestion_alg_state
        cwin == IF p.smoothed_rtt <= PICOQUIC_TARGET_RENO_RTT
                THEN p.cwin + nb_bytes_acknowledged
                ELSE p.cwin + (p.smoothed_rtt * nb_bytes_acknowledged)
                                  \div PICOQUIC_TARGET_RENO_RTT
    IN  IF ~U64Lt(U64Of(cwin), cs.ssthresh)
        THEN [p EXCEPT !.cwin = cwin,
                       !.congestion_alg_state =
                           picoquic_cubic_enter_avoidance(
                               [cs EXCEPT !.W_reno = (cwin * FP) \div 2], current_time)]
        ELSE [p EXCEPT !.cwin = cwin]

(* case picoquic_cubic_alg_slow_start, rtt_measurement *)
SlowStartRttMeasurement(p, rtt_measurement, current_time) ==
    LET cs == p.congestion_alg_state
        h == picoquic_hystart_test(cs.rtt_filter, rtt_measurement, current_time)
        w == (p.cwin * FP) \div p.send_mtu
        cs1 == picoquic_cubic_enter_avoidance(
                   [cs EXCEPT !.rtt_filter = h.rtt_track, !.ssthresh = U64Of(p.cwin),
                              !.W_max = w, !.W_last_max = w, !.W_reno = p.cwin * FP],
                   current_time)
        K_micro == (cs1.K * 15625) \div 16
    IN  IF cs.ssthresh # UINT64_MAX THEN p
        ELSE IF h.ret = 0
        THEN [p EXCEPT !.congestion_alg_state.rtt_filter = h.rtt_track]
        ELSE [p EXCEPT !.congestion_alg_state =
                  IF K_micro > current_time
                  THEN [cs1 EXCEPT !.K = (current_time * 128) \div 125000,
                                   !.start_of_epoch = 0]
                  ELSE [cs1 EXCEPT !.start_of_epoch = current_time - K_micro]]

RecoveryAcknowledgementIgnored(p, nb_bytes_acknowledged) == p

(* case picoquic_cubic_alg_recovery, acknowledgement *)
RecoveryAcknowledgement(p, nb_bytes_acknowledged) ==
    LET cwin == p.cwin + nb_bytes_acknowledged
    IN  [p EXCEPT !.cwin = cwin,
                  !.congestion_alg_state.alg_state =
                      IF ~U64Lt(U64Of(cwin), p.congestion_alg_state.ssthresh)
                      THEN "congestion_avoidance" ELSE "slow_start"]

CubicWindowOnly(p, nb_bytes_acknowledged, current_time) ==
    LET cs == p.congestion_alg_state
        win_cubic == (picoquic_cubic_W_cubic(cs, current_time) * p.send_mtu) \div FP
        bytes == nb_bytes_acknowledged * p.send_mtu
        floor == cs.W_reno \div FP
        W_reno == cs.W_reno + (bytes \div floor) * FP + ((bytes % floor) * FP) \div floor
    IN  [p EXCEPT !.cwin = win_cubic, !.congestion_alg_state.W_reno = W_reno]

(* case picoquic_cubic_alg_congestion_avoidance, acknowledgement *)
CongestionAvoidanceAcknowledgement(p, nb_bytes_acknowledged, current_time) ==
    LET cs == p.congestion_alg_state
        win_cubic == (picoquic_cubic_W_cubic(cs, current_time) * p.send_mtu) \div FP
        bytes == nb_bytes_acknowledged * p.send_mtu
        floor == cs.W_reno \div FP
        W_reno == cs.W_reno + (bytes \div floor) * FP + ((bytes % floor) * FP) \div floor
    IN  [p EXCEPT !.cwin = IF win_cubic * FP > W_reno THEN win_cubic ELSE W_reno \div FP,
                  !.congestion_alg_state.W_reno = W_reno]

(* picoquic_update_pacing_data, called last, changes none of the fields held here *)
picoquic_cubic_notify(p, notification, rtt_measurement, nb_bytes_acknowledged, current_time) ==
    LET loss == IF LossIsNew(p, current_time)
                THEN picoquic_cubic_enter_recovery(p, notification, current_time)
                ELSE p
        spurious == picoquic_cubic_correct_spurious(p, current_time)
    IN  CASE p.congestion_alg_state.alg_state = "slow_start" ->
                 CASE notification = "acknowledgement" ->
                          SlowStartAcknowledgement(p, nb_bytes_acknowledged, current_time)
                   [] notification \in {"ecn_ec", "repeat", "timeout"} -> loss
                   [] notification = "spurious_repeat" -> spurious
                   [] notification = "rtt_measurement" ->
                          SlowStartRttMeasurement(p, rtt_measurement, current_time)
                   [] OTHER -> p
          [] p.congestion_alg_state.alg_state = "recovery" ->
                 IF notification = "spurious_repeat" THEN spurious
                 ELSE CASE notification = "acknowledgement" ->
                               RecoveryAcknowledgement(p, nb_bytes_acknowledged)
                        [] notification \in {"ecn_ec", "repeat", "timeout"} -> loss
                        [] OTHER -> p
          [] p.congestion_alg_state.alg_state = "congestion_avoidance" ->
                 CASE notification = "acknowledgement" ->
                          CongestionAvoidanceAcknowledgement(p, nb_bytes_acknowledged,
                                                             current_time)
                   [] notification \in {"ecn_ec", "repeat", "timeout"} -> loss
                   [] notification = "spurious_repeat" -> spurious
                   [] OTHER -> p
          [] OTHER -> p

(***************************************************************************)
(* Connection IDs.  A connection ID is an opaque value with a length; the  *)
(* model has the null ID, one 4-byte ID, 8-byte IDs chosen by peers and    *)
(* the 8-byte local ID the endpoint gives to each connection context.      *)
(***************************************************************************)
NullCid == 0

ShortCid == 1

PeerCids == {2, 3}

MaxCnx == 2

Slots == 1..MaxCnx

LocalCid(slot) == 10 + slot

LocalCids == {LocalCid(s) : s \in Slots}

CidLen(cid) == IF cid = NullCid THEN 0 ELSE IF cid = ShortCid THEN 4 ELSE 8

PICOQUIC_ENFORCED_INITIAL_MTU == 1200

PICOQUIC_ENFORCED_INITIAL_CID_LENGTH == 8

PICOQUIC_RESET_SECRET_SIZE == 16

PICOQUIC_RESET_PACKET_PAD_SIZE == 23

PICOQUIC_RESET_PACKET_MIN_SIZE == PICOQUIC_RESET_PACKET_PAD_SIZE + PICOQUIC_RESET_SECRET_SIZE

AeadChecksumLength == 16

(* quic->local_cnxid_length: the length of the connection IDs that the endpoint
   issues, 8 or 0; it is set when the context is made and never changes *)
local_cnxid_length == quic.local_cnxid_length

NoCnx == 0

NoKey == -1

NoTime == -1

(***************************************************************************)
(* picoquic_state_enum: the numeric order of the connection states, which  *)
(* the handlers compare with < and >=.                                     *)
(***************************************************************************)
StateRank(s) ==
    CASE s = "client_init" -> 0
      [] s = "client_init_sent" -> 1
      [] s = "client_init_resent" -> 4
      [] s = "server_init" -> 5
      [] s = "client_handshake_start" -> 7
      [] s = "client_handshake_progress" -> 8
      [] s = "handshake_failure" -> 9
      [] s = "client_almost_ready" -> 10
      [] s = "server_false_start" -> 11
      [] s = "server_almost_ready" -> 12
      [] s = "ready" -> 14
      [] s = "disconnecting" -> 15
      [] s = "closing_received" -> 16
      [] s = "closing" -> 17
      [] s = "draining" -> 18
      [] s = "disconnected" -> 19

PacketContexts == {"initial", "handshake", "application"}

(* first_sack_item.end_of_sack_range: the highest packet number received, 0 at start *)
end_of_sack_range(c, pc) ==
    IF c.sack[pc] = {} THEN 0 ELSE CHOOSE n \in c.sack[pc] : \A m \in c.sack[pc] : m <= n

(***************************************************************************)
(* The registry of connection contexts (picoquic_quic_t): cnxs maps the    *)
(* slots in use to connection contexts.                                    *)
(***************************************************************************)
picoquic_cnx_by_id(reg, cid) ==
    IF \E s \in DOMAIN reg : reg[s].local_cnxid = cid
    THEN CHOOSE s \in DOMAIN reg : reg[s].local_cnxid = cid
    ELSE NoCnx

picoquic_cnx_by_net(reg, addr) ==
    IF \E s \in DOMAIN reg : reg[s].peer_addr = addr
    THEN CHOOSE s \in DOMAIN reg :
             reg[s].peer_addr = addr /\ \A t \in DOMAIN reg : reg[t].peer_addr = addr => s <= t
    ELSE NoCnx

(* the local address of the endpoint, to which every datagram it receives was sent;
   path[0].local_addr is 0 when local_addr_len is 0 *)
AddrTo == 1

StoreLocalAddr(c) == IF c.local_addr = 0 THEN [c EXCEPT !.local_addr = AddrTo] ELSE c

NewCnx(client_mode, state, initial_cnxid, local_cnxid, remote_cnxid, addr, callback_fn) ==
    [client_mode |-> client_mode, cnx_state |-> state, keys |-> {0},
     initial_cnxid |-> initial_cnxid, local_cnxid |-> local_cnxid,
     remote_cnxid |-> remote_cnxid, original_cnxid |-> NullCid,
     peer_addr |-> addr, callback_fn |-> callback_fn,
     sack |-> [pc \in PacketContexts |-> {}], ack_needed |-> {},
     key_phase_dec |-> 0, key_cur |-> 0, key_old |-> NoKey, key_new |-> NoKey,
     key_enc |-> 0, key_new_enc |-> FALSE, can_rotate |-> TRUE,
     crypto_rotation_sequence |-> 0, crypto_rotation_time_guard |-> 0,
     retransmit_timer |-> 1, retransmit_oldest |-> NoTime, nb_retransmit |-> 0,
     is_1rtt_received |-> FALSE, initial_validated |-> FALSE,
     initial_repeat_needed |-> FALSE, retry_token |-> FALSE, local_error |-> "none",
     alt_peer_addr |-> 0, alt_challenge_required |-> FALSE, alt_challenge_timeout |-> 0,
     challenge_required |-> FALSE, path_is_activated |-> FALSE,
     reset_secret |-> local_cnxid, local_addr |-> 0]

(* picoquic_create_cnx for an incoming Initial: NoCnx when no context can be allocated *)
picoquic_create_cnx(reg, initial_cnxid, remote_cnxid, addr, callback_fn) ==
    IF DOMAIN reg = Slots THEN [cnx |-> NoCnx, reg |-> reg]
    ELSE LET s == CHOOSE t \in Slots \ DOMAIN reg : \A u \in Slots \ DOMAIN reg : t <= u
         IN  [cnx |-> s,
              reg |-> [t \in DOMAIN reg \cup {s} |->
                          IF t = s
                          THEN NewCnx(FALSE, "server_init", initial_cnxid, LocalCid(s),
                                      remote_cnxid, addr, callback_fn)
                          ELSE reg[t]]]

picoquic_delete_cnx(reg, cnx) == [t \in DOMAIN reg \ {cnx} |-> reg[t]]

(***************************************************************************)
(* Crypto contexts.  crypto_context[epoch] of epochs 0..2 is filled by the *)
(* TLS stack as the handshake advances; the 1-RTT keys are numbered by     *)
(* generation (key_cur, key_old, key_new), NoKey meaning a NULL context.   *)
(***************************************************************************)
HasEpochKey(c, epoch) == epoch \in c.keys

(* picoquic_aead_decrypt_generic: the plaintext length, or more than the input on
   failure.  The packet number is the nonce and the header up to ph.offset is the
   authenticated data: both must be what the sender used. *)
picoquic_aead_decrypt_generic(seg, ph, key) ==
    IF seg.sealed = key /\ key # NoKey /\ seg.pn = ph.pn64
       /\ ph.offset = ph.pn_offset + seg.pn_l
       /\ ph.payload_length >= AeadChecksumLength
    THEN ph.payload_length - AeadChecksumLength
    ELSE ph.payload_length + 1

(* the next generation of 1-RTT keys is derived, unless the TLS stack fails to *)
picoquic_compute_new_rotated_keys(c) ==
    IF c.can_rotate
    THEN [c EXCEPT !.key_new = c.key_cur + 1, !.key_new_enc = (c.key_enc = c.key_cur)]
    ELSE c

picoquic_apply_rotated_keys(c, is_enc) ==
    IF is_enc = 0
    THEN [c EXCEPT !.key_old = c.key_cur, !.key_cur = c.key_new, !.key_new = NoKey,
                   !.key_phase_dec = 1 - c.key_phase_dec]
    ELSE [c EXCEPT !.key_enc = c.key_enc + 1, !.key_new_enc = FALSE]

(***************************************************************************)
(* Segments.  A segment is the part of a datagram that one QUIC packet     *)
(* occupies.  Its bytes are abstracted to the fields the receive path      *)
(* looks at: header form, version, type bits, connection IDs, token,       *)
(* packet number, the key it was sealed with, the frames it carries and    *)
(* its trailing 16 bytes.  A segment with fill = TRUE extends to the end   *)
(* of the datagram; the others declare their own payload length.           *)
(***************************************************************************)
LongBaseOffset(seg) == 7 + CidLen(seg.dcid) + CidLen(seg.scid)

TokenLen(seg) == IF seg.token = "none" THEN 0 ELSE 8

PlainLen(frames) == IF frames = "empty" THEN 0 ELSE IF frames = "tiny" THEN 1 ELSE 3

NominalPayload(seg) == seg.pn_l + PlainLen(seg.frames) + AeadChecksumLength

PhZero ==
    [ret |-> 0, ptype |-> "error", pc |-> "application", epoch |-> 0, vn |-> "zero",
     version_index |-> -1, dest_cnx_id |-> NullCid, srce_cnx_id |-> NullCid,
     offset |-> 0, payload_length |-> 0, pn_offset |-> 0, key_phase |-> 0,
     pn |-> 0, pn64 |-> 0, has_reserved_bit_set |-> FALSE, cnx |-> NoCnx]

LongTypeOf(tbits) ==
    CASE tbits = "initial" -> [ptype |-> "initial", pc |-> "initial", epoch |-> 0]
      [] tbits = "0rtt" -> [ptype |-> "0rtt_protected", pc |-> "application", epoch |-> 1]
      [] tbits = "handshake" -> [ptype |-> "handshake", pc |-> "handshake", epoch |-> 2]
      [] tbits = "retry" -> [ptype |-> "retry", pc |-> "initial", epoch |-> 0]

(* the versions of the table picoquic_supported_versions: "ok" is the first entry,
   the version that the connections of the model use, "other" the second one *)
picoquic_get_version_index(vn) ==
    CASE vn = "ok" -> 0
      [] vn = "other" -> 1
      [] OTHER -> -1

(* a server keeps the context found by address for any Initial or 0-RTT packet *)
LookupIgnoresInitialCid(reg, ptype, dcid, addr) ==
    LET by_id == IF CidLen(dcid) # 0 THEN picoquic_cnx_by_id(reg, dcid) ELSE NoCnx
        by_net == picoquic_cnx_by_net(reg, addr)
    IN  IF by_id # NoCnx THEN by_id
        ELSE IF by_net = NoCnx THEN NoCnx
        ELSE IF reg[by_net].client_mode
             THEN IF CidLen(reg[by_net].local_cnxid) # 0 THEN NoCnx ELSE by_net
        ELSE IF ptype # "initial" /\ ptype # "0rtt_protected" THEN NoCnx
        ELSE by_net

(* the connection lookup at the end of the long header parser *)
LongHeaderLookup(reg, ptype, dcid, addr) ==
    LET by_id == IF CidLen(dcid) # 0 THEN picoquic_cnx_by_id(reg, dcid) ELSE NoCnx
        by_net == picoquic_cnx_by_net(reg, addr)
    IN  IF by_id # NoCnx THEN by_id
        ELSE IF by_net = NoCnx THEN NoCnx
        ELSE IF reg[by_net].client_mode
             THEN IF CidLen(reg[by_net].local_cnxid) # 0 THEN NoCnx ELSE by_net
        ELSE IF ptype # "initial" /\ ptype # "0rtt_protected" THEN NoCnx
        ELSE IF reg[by_net].initial_cnxid # dcid THEN NoCnx
        ELSE by_net

picoquic_parse_long_packet_header(reg, seg, length, addr) ==
    LET base == LongBaseOffset(seg)
        vi == picoquic_get_version_index(seg.vn)
        ph0 == [PhZero EXCEPT !.vn = seg.vn, !.dest_cnx_id = seg.dcid,
                              !.srce_cnx_id = seg.scid, !.offset = base]
    IN  IF length < base THEN [PhZero EXCEPT !.ret = -1]
        ELSE IF seg.vn = "zero" THEN
            [ph0 EXCEPT !.ptype = "version_negotiation", !.pc = "initial",
                        !.payload_length = length - base,
                        !.cnx = IF CidLen(seg.dcid) > 0
                                THEN picoquic_cnx_by_id(reg, seg.dcid)
                                ELSE LET n == picoquic_cnx_by_net(reg, addr)
                                     IN  IF n # NoCnx /\ CidLen(reg[n].local_cnxid) # 0
                                         THEN NoCnx ELSE n]
        ELSE IF vi < 0 \/ seg.tbits = "invalid" THEN ph0
        ELSE
            LET ty == LongTypeOf(seg.tbits)
                tok_bad == seg.tbits = "initial"
                           /\ (length < base + 1 \/ length - (base + 1) < TokenLen(seg))
                o1 == IF seg.tbits = "initial" THEN base + 1 + TokenLen(seg) ELSE base
                declared == IF seg.fill THEN length - (o1 + 2) ELSE NominalPayload(seg)
                len_bad == length < o1 + 2 \/ length - (o1 + 2) < declared
            IN  IF tok_bad THEN
                    [ph0 EXCEPT !.version_index = vi, !.epoch = 0, !.offset = length]
                ELSE IF seg.tbits = "retry" THEN
                    IF length > base
                    THEN [ph0 EXCEPT !.version_index = vi, !.ptype = "retry", !.pc = ty.pc,
                                     !.epoch = ty.epoch, !.payload_length = length - base,
                                     !.pn_offset = base,
                                     !.cnx = LongHeaderLookup(reg, "retry", seg.dcid, addr)]
                    ELSE [ph0 EXCEPT !.version_index = vi]
                ELSE IF len_bad THEN
                    [ph0 EXCEPT !.version_index = vi, !.pc = ty.pc, !.epoch = ty.epoch,
                                !.offset = o1, !.payload_length = length - o1]
                ELSE
                    [ph0 EXCEPT !.version_index = vi, !.ptype = ty.ptype, !.pc = ty.pc,
                                !.epoch = ty.epoch, !.offset = o1 + 2, !.pn_offset = o1 + 2,
                                !.payload_length = declared,
                                !.cnx = LongHeaderLookup(reg, ty.ptype, seg.dcid, addr)]

picoquic_parse_short_packet_header(reg, seg, length, addr) ==
    LET fits == length >= 1 + local_cnxid_length
        offset == IF fits THEN 1 + local_cnxid_length ELSE length
        dcid == IF fits /\ local_cnxid_length > 0 THEN seg.dcid ELSE NullCid
        cnx == IF ~fits THEN NoCnx
               ELSE IF local_cnxid_length > 0 THEN picoquic_cnx_by_id(reg, dcid)
               ELSE picoquic_cnx_by_net(reg, addr)
        ph0 == [PhZero EXCEPT !.dest_cnx_id = dcid, !.offset = offset, !.cnx = cnx]
    IN  IF cnx # NoCnx THEN
            IF ~seg.quic_bit
            THEN [ph0 EXCEPT !.ret = -1, !.epoch = 3, !.version_index = 0,
                             !.pn_offset = offset, !.key_phase = seg.key_phase]
            ELSE [ph0 EXCEPT !.epoch = 3, !.version_index = 0, !.ptype = "1rtt_protected",
                             !.pn_offset = offset, !.key_phase = seg.key_phase,
                             !.payload_length = length - offset]
        ELSE [ph0 EXCEPT !.ptype = "1rtt_protected",
                         !.payload_length = IF length > offset THEN length - offset ELSE 0]

picoquic_parse_packet_header(reg, seg, length, addr) ==
    IF seg.form = "long"
    THEN picoquic_parse_long_packet_header(reg, seg, length, addr)
    ELSE picoquic_parse_short_packet_header(reg, seg, length, addr)

(***************************************************************************)
(* Header protection and packet protection                                 *)
(***************************************************************************)
PnIvSize == 16

PnUnset == -1

TruncPn(pn, pn_l) ==
    CASE pn_l = 1 -> pn % 256
      [] pn_l = 2 -> pn % 65536
      [] pn_l = 3 -> pn % 16777216
      [] OTHER -> pn

(* the packet numbers that segments carry are 0..MaxPn *)
MaxPn == 2

(* picoquic_get_packet_number64 applied to the highest packet number received, the
   mask of a pn_l byte packet number and the truncated packet number of the segment *)
PacketNumber64 ==
    [highest \in 0..MaxPn, pn_l \in 1..4, pn \in 0..MaxPn |->
        U64ToNat(picoquic_get_packet_number64(U64Of(highest), PnMask(pn_l),
                                              U64Of(TruncPn(pn, pn_l))))]

(* (first_byte & 0x18) != 0 of the first byte without its mask.  In a short header
   0x18 are the two reserved bits; in a long header 0x10 is the low bit of the packet
   type, set in 0-RTT and Retry packets, and 0x08 the first reserved bit. *)
ReservedBits(seg) ==
    IF seg.form = "long" THEN seg.rsv \/ seg.tbits \in {"0rtt", "retry"} ELSE seg.rsv

(* the payload length is not reduced by the length of the packet number *)
HeaderProtectionKeepsPayloadLength(c, seg, ph) ==
    IF ~HasEpochKey(c, ph.epoch)
    THEN [ret |-> -1, ph |-> [ph EXCEPT !.offset = ph.pn_offset, !.pn = PnUnset,
                                        !.pn64 = PnUnset]]
    ELSE IF ph.pn_offset + 4 + PnIvSize > ph.offset + ph.payload_length
    THEN [ret |-> 0, ph |-> [ph EXCEPT !.offset = ph.pn_offset, !.pn = PnUnset]]
    ELSE [ret |-> 0,
          ph |-> [ph EXCEPT
                    !.offset = @ + seg.pn_l,
                    !.pn = TruncPn(seg.pn, seg.pn_l),
                    !.key_phase = IF ph.ptype = "1rtt_protected" THEN seg.key_phase ELSE @,
                    !.pn64 = PacketNumber64[end_of_sack_range(c, ph.pc), seg.pn_l, seg.pn],
                    !.has_reserved_bit_set = (seg.form = "short" /\ ReservedBits(seg))]]

(* the reserved bits are looked at in the long headers *)
ReservedBitsOfLongHeaders(c, seg, ph) ==
    IF ~HasEpochKey(c, ph.epoch)
    THEN [ret |-> -1, ph |-> [ph EXCEPT !.offset = ph.pn_offset, !.pn = PnUnset,
                                        !.pn64 = PnUnset]]
    ELSE IF ph.pn_offset + 4 + PnIvSize > ph.offset + ph.payload_length
    THEN [ret |-> 0, ph |-> [ph EXCEPT !.offset = ph.pn_offset, !.pn = PnUnset]]
    ELSE [ret |-> 0,
          ph |-> [ph EXCEPT
                    !.offset = @ + seg.pn_l,
                    !.payload_length = @ - seg.pn_l,
                    !.pn = TruncPn(seg.pn, seg.pn_l),
                    !.key_phase = IF ph.ptype = "1rtt_protected" THEN seg.key_phase ELSE @,
                    !.pn64 = PacketNumber64[end_of_sack_range(c, ph.pc), seg.pn_l, seg.pn],
                    !.has_reserved_bit_set = (seg.form = "long" /\ ReservedBits(seg))]]

(* ph.pn and ph.pn64 of a header that could not be unprotected are 0xFFFFFFFF and
   2^64 - 1, both held as PnUnset *)
picoquic_remove_header_protection(c, seg, ph) ==
    IF ~HasEpochKey(c, ph.epoch)
    THEN [ret |-> -1, ph |-> [ph EXCEPT !.offset = ph.pn_offset, !.pn = PnUnset,
                                        !.pn64 = PnUnset]]
    ELSE IF ph.pn_offset + 4 + PnIvSize > ph.offset + ph.payload_length
    THEN [ret |-> 0, ph |-> [ph EXCEPT !.offset = ph.pn_offset, !.pn = PnUnset]]
    ELSE [ret |-> 0,
          ph |-> [ph EXCEPT
                    !.offset = @ + seg.pn_l,
                    !.payload_length = @ - seg.pn_l,
                    !.pn = TruncPn(seg.pn, seg.pn_l),
                    !.key_phase = IF ph.ptype = "1rtt_protected" THEN seg.key_phase ELSE @,
                    !.pn64 = PacketNumber64[end_of_sack_range(c, ph.pc), seg.pn_l, seg.pn],
                    !.has_reserved_bit_set = (seg.form = "short" /\ ReservedBits(seg))]]

picoquic_is_pn_already_received(c, pc, pn64) == pn64 \in c.sack[pc]

(* lines 842-853: a packet that claims the old key *)
OldKeyIgnoresTimeGuard(c, seg, ph, current_time) ==
    IF c.key_old # NoKey
    THEN [decoded |-> picoquic_aead_decrypt_generic(seg, ph, c.key_old),
          key |-> "old"]
    ELSE [decoded |-> ph.payload_length + 1, key |-> "none"]

DecryptWithOldKey(c, seg, ph, current_time) ==
    IF current_time > c.crypto_rotation_time_guard
    THEN [decoded |-> ph.payload_length + 1, key |-> "none"]
    ELSE IF c.key_old # NoKey
    THEN [decoded |-> picoquic_aead_decrypt_generic(seg, ph, c.key_old),
          key |-> "old"]
    ELSE [decoded |-> ph.payload_length + 1, key |-> "none"]

(* lines 870-877: the rotation is validated *)
CommitKeepsRotationSequence(c, pn64, current_time) ==
    LET c2 == picoquic_apply_rotated_keys(
                  [c EXCEPT !.crypto_rotation_time_guard = current_time + c.retransmit_timer],
                  0)
    IN  IF c.key_new_enc THEN picoquic_apply_rotated_keys(c2, 1) ELSE c2

CommitKeyRotation(c, pn64, current_time) ==
    LET c2 == picoquic_apply_rotated_keys(
                  [c EXCEPT !.crypto_rotation_time_guard = current_time + c.retransmit_timer,
                            !.crypto_rotation_sequence = pn64],
                  0)
    IN  IF c.key_new_enc THEN picoquic_apply_rotated_keys(c2, 1) ELSE c2

RotationWithoutSequenceTest(c, seg, ph, current_time) ==
    LET already == picoquic_is_pn_already_received(c, ph.pc, ph.pn64)
        fail == [decoded |-> ph.payload_length + 1, already_received |-> already,
                 c |-> c, key |-> "none"]
    IN  IF ph.epoch = 3 THEN
            IF ph.key_phase = c.key_phase_dec THEN
                [fail EXCEPT !.decoded = picoquic_aead_decrypt_generic(seg, ph, c.key_cur),
                             !.key = "current"]
            ELSE
                LET c1 == IF c.key_new = NoKey /\ ~c.key_new_enc
                          THEN picoquic_compute_new_rotated_keys(c) ELSE c
                IN  IF c1.key_new # NoKey THEN
                        LET decoded == picoquic_aead_decrypt_generic(seg, ph, c1.key_new)
                        IN  [decoded |-> decoded, already_received |-> already,
                             c |-> IF decoded <= ph.payload_length
                                   THEN CommitKeyRotation(c1, ph.pn64, current_time)
                                   ELSE c1,
                             key |-> "new"]
                    ELSE [fail EXCEPT !.c = c1]
        ELSE IF HasEpochKey(c, ph.epoch) THEN
            [fail EXCEPT !.decoded = picoquic_aead_decrypt_generic(seg, ph, 0),
                         !.key = "epoch"]
        ELSE fail

picoquic_remove_packet_protection(c, seg, ph, current_time) ==
    LET already == picoquic_is_pn_already_received(c, ph.pc, ph.pn64)
        fail == [decoded |-> ph.payload_length + 1, already_received |-> already,
                 c |-> c, key |-> "none"]
    IN  IF ph.epoch = 3 THEN
            IF ph.key_phase = c.key_phase_dec THEN
                [fail EXCEPT !.decoded = picoquic_aead_decrypt_generic(seg, ph, c.key_cur),
                             !.key = "current"]
            ELSE IF ph.pn64 < c.crypto_rotation_sequence THEN
                LET old == DecryptWithOldKey(c, seg, ph, current_time)
                IN  [fail EXCEPT !.decoded = old.decoded, !.key = old.key]
            ELSE
                LET c1 == IF c.key_new = NoKey /\ ~c.key_new_enc
                          THEN picoquic_compute_new_rotated_keys(c) ELSE c
                IN  IF c1.key_new # NoKey THEN
                        LET decoded == picoquic_aead_decrypt_generic(seg, ph, c1.key_new)
                        IN  [decoded |-> decoded, already_received |-> already,
                             c |-> IF decoded <= ph.payload_length
                                   THEN CommitKeyRotation(c1, ph.pn64, current_time)
                                   ELSE c1,
                             key |-> "new"]
                    ELSE [fail EXCEPT !.c = c1]
        ELSE IF HasEpochKey(c, ph.epoch) THEN
            [fail EXCEPT !.decoded = picoquic_aead_decrypt_generic(seg, ph, 0),
                         !.key = "epoch"]
        ELSE fail

(* lines 930-942: is an Initial for an unknown connection acceptable? *)
AcceptsShortInitialCid(ph, packet_length) ==
    IF packet_length < PICOQUIC_ENFORCED_INITIAL_MTU THEN "INITIAL_TOO_SHORT"
    ELSE "OK"

InitialAcceptance(ph, packet_length) ==
    IF packet_length < PICOQUIC_ENFORCED_INITIAL_MTU THEN "INITIAL_TOO_SHORT"
    ELSE IF CidLen(ph.dest_cnx_id) < PICOQUIC_ENFORCED_INITIAL_CID_LENGTH
    THEN "INITIAL_CID_TOO_SHORT"
    ELSE "OK"

(***************************************************************************)
(* picoquic_parse_header_and_decrypt.  The result carries the return code, *)
(* the parsed header, the connection context found or created, the         *)
(* registry after the call and the number of bytes consumed.               *)
(***************************************************************************)
(* lines 959-980: the outcome of the decryption *)
DecryptOutcome(r2, cnx, created, seg, len, hp, pp) ==
    IF pp.decoded > len - hp.ph.offset THEN
        IF hp.ph.ptype = "1rtt_protected"
           /\ len >= PICOQUIC_RESET_PACKET_MIN_SIZE
           /\ seg.tail = r2.reg[cnx].reset_secret
        THEN [r2 EXCEPT !.ret = "STATELESS_RESET"]
        ELSE IF created
        THEN [r2 EXCEPT !.ret = "AEAD_CHECK",
                        !.reg = picoquic_delete_cnx(r2.reg, cnx),
                        !.cnx = NoCnx, !.new_ctx_created = FALSE]
        ELSE [r2 EXCEPT !.ret = "AEAD_CHECK"]
    ELSE IF pp.already_received
    THEN [r2 EXCEPT !.ret = "DUPLICATE"]
    ELSE [r2 EXCEPT !.ph.payload_length = pp.decoded]

(* lines 949-956: the packet protection is removed if the header protection was *)
RemoveProtection(c, seg, hp, current_time) ==
    IF hp.ret = 0
    THEN picoquic_remove_packet_protection(c, seg, hp.ph, current_time)
    ELSE [decoded |-> hp.ph.payload_length + 1, already_received |-> FALSE,
          c |-> c, key |-> "none"]

(* lines 946-981: the protection is removed with the keys of the context *)
DecryptSegment(r1, reg1, cnx, created, seg, len, current_time) ==
    TheOne({
        TheOne({
            DecryptOutcome([r1 EXCEPT !.ph = hp.ph, !.reg = [reg1 EXCEPT ![cnx] = pp.c],
                                      !.cnx = cnx, !.new_ctx_created = created,
                                      !.made = created, !.key = pp.key],
                           cnx, created, seg, len, hp, pp)
            : pp \in {RemoveProtection(reg1[cnx], seg, hp, current_time)}})
        : hp \in {picoquic_remove_header_protection(reg1[cnx], seg, r1.ph)}})

(* lines 982-1012: a short header packet for no known connection ID may be a
   stateless reset of the connection with that peer address *)
ResetByAddress(r1, seg, len, addr) ==
    TheOne({IF n # NoCnx /\ len >= PICOQUIC_RESET_PACKET_MIN_SIZE
               /\ seg.tail = r1.reg[n].reset_secret
            THEN [r1 EXCEPT !.ret = "STATELESS_RESET", !.cnx = n]
            ELSE r1
            : n \in {picoquic_cnx_by_net(r1.reg, addr)}})

(* lines 927-944: a connection context is created for an acceptable Initial *)
CreateAndDecrypt(q, r1, ph0, reg, seg, len, packet_length, addr, current_time) ==
    IF InitialAcceptance(ph0, packet_length) # "OK"
    THEN [r1 EXCEPT !.ret = InitialAcceptance(ph0, packet_length)]
    ELSE TheOne({IF made.cnx # NoCnx
                 THEN DecryptSegment(r1, made.reg, made.cnx, TRUE, seg, len, current_time)
                 ELSE r1
                 : made \in {picoquic_create_cnx(reg, ph0.dest_cnx_id, ph0.srce_cnx_id,
                                                 addr, q.default_callback_fn)}})

(* lines 921-1018: what follows the parsing of the header *)
DecryptParsed(q, ph0, reg, seg, length, packet_length, addr, current_time) ==
    LET r0 == [ret |-> "OK", ph |-> ph0, reg |-> reg, cnx |-> ph0.cnx, consumed |-> 0,
               new_ctx_created |-> FALSE, made |-> FALSE, key |-> "none"]
        len == ph0.offset + ph0.payload_length
        r1 == [r0 EXCEPT !.consumed = len]
    IN  IF ph0.ret # 0 THEN [r0 EXCEPT !.ret = "PARSE"]
        ELSE IF ph0.ptype = "version_negotiation" \/ ph0.ptype = "retry"
        THEN [r0 EXCEPT !.consumed = length]
        ELSE IF ph0.cnx = NoCnx /\ ph0.ptype = "initial"
        THEN CreateAndDecrypt(q, r1, ph0, reg, seg, len, packet_length, addr, current_time)
        ELSE IF ph0.cnx # NoCnx
        THEN DecryptSegment(r1, reg, ph0.cnx, FALSE, seg, len, current_time)
        ELSE IF ph0.ptype = "1rtt_protected"
        THEN ResetByAddress(r1, seg, len, addr)
        ELSE r1

ParseLeavesConsumedUnset(q, reg, seg, length, packet_length, addr, current_time) ==
    TheOne({[DecryptParsed(q, ph0, reg, seg, length, packet_length, addr, current_time)
                 EXCEPT !.consumed = IF @ = length THEN @ ELSE 0]
            : ph0 \in {picoquic_parse_packet_header(reg, seg, length, addr)}})

picoquic_parse_header_and_decrypt(q, reg, seg, length, packet_length, addr, current_time) ==
    TheOne({DecryptParsed(q, ph0, reg, seg, length, packet_length, addr, current_time)
            : ph0 \in {picoquic_parse_packet_header(reg, seg, length, addr)}})

(***************************************************************************)
(* Collaborators of the packet handlers: the frame decoder, the TLS stack  *)
(* and the connection error routine, reduced to what they do to the        *)
(* connection state, the keys and the ack_needed flags.  The frames of a   *)
(* segment are one of: "data" (ack-eliciting frames), "ack" (pure ACK),    *)
(* "tls" (handshake data that TLS accepts), "tlsbad" (handshake data that  *)
(* TLS rejects), "bad" (a malformed frame), "close" (connection close),    *)
(* "empty" (no frame at all) and "tiny" (one padding byte).                *)
(***************************************************************************)
picoquic_connection_error(c) ==
    [ret |-> "DETECTED",
     c |-> IF c.cnx_state = "ready"
           THEN [c EXCEPT !.cnx_state = "disconnecting", !.local_error = "protocol_violation"]
           ELSE IF StateRank(c.cnx_state) < StateRank("ready")
           THEN [c EXCEPT !.cnx_state = "handshake_failure",
                          !.local_error = "protocol_violation"]
           ELSE c]

picoquic_decode_frames(c, frames, pc) ==
    CASE frames = "bad" -> picoquic_connection_error(c)
      [] frames = "close" ->
            [ret |-> "OK",
             c |-> [c EXCEPT !.cnx_state = IF StateRank(c.cnx_state) < StateRank("ready")
                                           THEN "disconnected" ELSE "closing_received"]]
      [] frames \in {"ack", "empty"} -> [ret |-> "OK", c |-> c]
      [] OTHER -> [ret |-> "OK", c |-> [c EXCEPT !.ack_needed = @ \cup {pc}]]

picoquic_tls_stream_process(c, frames, epoch) ==
    IF frames = "tlsbad" THEN picoquic_connection_error(c)
    ELSE IF frames # "tls" THEN [ret |-> "OK", c |-> c]
    ELSE [ret |-> "OK",
          c |-> CASE c.cnx_state = "server_init" /\ epoch = 0 ->
                        [c EXCEPT !.cnx_state = "server_false_start", !.keys = {0, 1, 2, 3}]
                  [] c.cnx_state \in {"server_false_start", "server_almost_ready"}
                     /\ epoch = 2 ->
                        [c EXCEPT !.cnx_state = "ready"]
                  [] c.cnx_state = "client_handshake_start" /\ epoch = 0 ->
                        [c EXCEPT !.keys = @ \cup {2}]
                  [] c.cnx_state = "client_handshake_progress" /\ epoch = 2 ->
                        [c EXCEPT !.cnx_state = "client_almost_ready", !.keys = @ \cup {3}]
                  [] OTHER -> c]

picoquic_decode_closing_frames(frames) ==
    [ret |-> IF frames = "bad" THEN "DETECTED" ELSE "OK", closing_received |-> frames = "close"]

picoquic_reset_cnx(c) ==
    [c EXCEPT !.cnx_state = "client_init", !.keys = {0},
              !.sack = [pc \in PacketContexts |-> {}], !.ack_needed = {},
              !.retransmit_oldest = NoTime]

picoquic_implicit_handshake_ack(c) == [c EXCEPT !.retransmit_oldest = NoTime]

picoquic_record_pn_received(c, pc, pn64) == [c EXCEPT !.sack[pc] = @ \cup {pn64}]

(* the result of a packet handler: return code, connection context, whether the
   frames were handed to the frame decoder, application callbacks made *)
Handled(ret, c, decoded, cb) == [ret |-> ret, c |-> c, decoded |-> decoded, cb |-> cb]

(* the pattern shared by the handshake handlers: refuse an empty payload, decode
   the frames, then let TLS process the handshake data *)
AcceptFrames(c, seg, ph, check_empty, with_tls) ==
    LET d == IF check_empty /\ ph.payload_length = 0
             THEN picoquic_connection_error(c)
             ELSE picoquic_decode_frames(c, seg.frames, ph.pc)
        t == IF d.ret = "OK" /\ with_tls
             THEN picoquic_tls_stream_process(d.c, seg.frames, ph.epoch)
             ELSE d
    IN  Handled(t.ret, t.c, ~(check_empty /\ ph.payload_length = 0), <<>>)

picoquic_ignore_incoming_handshake(c, seg, ph) ==
    IF ph.ptype \notin {"initial", "handshake"} THEN c
    ELSE IF seg.frames \in {"bad", "ack", "empty"} \/ ph.payload_length = 0 THEN c
    ELSE [c EXCEPT !.ack_needed = @ \cup {ph.pc}]

VersionNegotiationKeepsState(c, seg, ph, length) ==
    IF ph.dest_cnx_id # c.local_cnxid \/ ph.vn # "zero"
    THEN Handled("OK", c, FALSE, <<>>)
    ELSE Handled("OK", c, FALSE,
                 IF c.callback_fn /\ length > ph.offset
                 THEN <<"version_negotiation">> ELSE <<>>)

picoquic_incoming_version_negotiation(c, seg, ph, length) ==
    IF ph.dest_cnx_id # c.local_cnxid \/ ph.vn # "zero"
    THEN Handled("OK", c, FALSE, <<>>)
    ELSE Handled("OK", [c EXCEPT !.cnx_state = "disconnected"], FALSE,
                 IF c.callback_fn /\ length > ph.offset
                 THEN <<"version_negotiation">> ELSE <<>>)

ResetWithoutDisconnect(c) ==
    Handled("AEAD_CHECK", c, FALSE, IF c.callback_fn THEN <<"stateless_reset">> ELSE <<>>)

picoquic_incoming_stateless_reset(c) ==
    Handled("AEAD_CHECK", [c EXCEPT !.cnx_state = "disconnected"], FALSE,
            IF c.callback_fn THEN <<"stateless_reset">> ELSE <<>>)

RetryAcceptedAgain(c, seg, ph) ==
    IF c.cnx_state \notin {"client_init_sent", "client_init_resent"}
    THEN Handled("UNEXPECTED_PACKET", c, FALSE, <<>>)
    ELSE IF ph.vn # "ok" \/ ph.pn64 # 0
    THEN Handled("UNEXPECTED_PACKET", c, FALSE, <<>>)
    ELSE IF seg.odcid # c.initial_cnxid \/ CidLen(seg.odcid) + 1 > ph.payload_length
    THEN Handled("UNEXPECTED_PACKET", c, FALSE, <<>>)
    ELSE Handled("RETRY",
                 picoquic_reset_cnx([c EXCEPT !.original_cnxid = c.initial_cnxid,
                                              !.initial_cnxid = ph.srce_cnx_id,
                                              !.retry_token = (seg.token # "none")]),
                 FALSE, <<>>)

picoquic_incoming_retry(c, seg, ph) ==
    IF c.cnx_state \notin {"client_init_sent", "client_init_resent"}
       \/ CidLen(c.original_cnxid) # 0
    THEN Handled("UNEXPECTED_PACKET", c, FALSE, <<>>)
    ELSE IF ph.vn # "ok" \/ ph.pn64 # 0
    THEN Handled("UNEXPECTED_PACKET", c, FALSE, <<>>)
    ELSE IF seg.odcid # c.initial_cnxid \/ CidLen(seg.odcid) + 1 > ph.payload_length
    THEN Handled("UNEXPECTED_PACKET", c, FALSE, <<>>)
    ELSE Handled("RETRY",
                 picoquic_reset_cnx([c EXCEPT !.original_cnxid = c.initial_cnxid,
                                              !.initial_cnxid = ph.srce_cnx_id,
                                              !.retry_token = (seg.token # "none")]),
                 FALSE, <<>>)

picoquic_incoming_server_initial(c, seg, ph) ==
    LET c0 == IF c.cnx_state \in {"client_init_sent", "client_init_resent"}
              THEN [c EXCEPT !.cnx_state = "client_handshake_start"] ELSE c
        restricted == c0.cnx_state # "client_handshake_start"
        learn == c0.remote_cnxid = NullCid /\ ~restricted
        c1 == IF learn THEN [c0 EXCEPT !.remote_cnxid = ph.srce_cnx_id, !.local_addr = AddrTo]
              ELSE c0
    IN  IF ~learn /\ c0.remote_cnxid # ph.srce_cnx_id
        THEN Handled("CNXID_CHECK", c0, FALSE, <<>>)
        ELSE IF StateRank(c1.cnx_state) < StateRank("client_handshake_progress") THEN
            LET h == AcceptFrames(c1, seg, ph, TRUE, ~restricted)
            IN  IF h.ret = "OK" /\ ~restricted /\ 2 \in h.c.keys
                THEN [h EXCEPT !.c = picoquic_implicit_handshake_ack(
                                         [h.c EXCEPT !.cnx_state = "client_handshake_progress"])]
                ELSE h
        ELSE IF StateRank(c1.cnx_state) < StateRank("ready")
        THEN Handled("OK", picoquic_ignore_incoming_handshake(c1, seg, ph), FALSE, <<>>)
        ELSE Handled("UNEXPECTED_PACKET", c1, FALSE, <<>>)

ServerHandshakeInEveryState(c, seg, ph) ==
    LET restricted == c.cnx_state \notin {"client_handshake_start", "client_handshake_progress"}
    IN  IF c.remote_cnxid # ph.srce_cnx_id THEN Handled("CNXID_CHECK", c, FALSE, <<>>)
        ELSE AcceptFrames(c, seg, ph, TRUE, ~restricted)

picoquic_incoming_server_handshake(c, seg, ph) ==
    LET restricted == c.cnx_state \notin {"client_handshake_start", "client_handshake_progress"}
    IN  IF c.remote_cnxid # ph.srce_cnx_id THEN Handled("CNXID_CHECK", c, FALSE, <<>>)
        ELSE IF StateRank(c.cnx_state) < StateRank("ready")
        THEN AcceptFrames(c, seg, ph, TRUE, ~restricted)
        ELSE Handled("UNEXPECTED_PACKET", c, FALSE, <<>>)

picoquic_incoming_client_handshake(c, seg, ph) ==
    LET c1 == [c EXCEPT !.initial_validated = TRUE]
    IN  IF StateRank(c1.cnx_state) < StateRank("server_almost_ready") THEN
            IF ph.srce_cnx_id # c1.remote_cnxid THEN Handled("CNXID_CHECK", c1, FALSE, <<>>)
            ELSE AcceptFrames(c1, seg, ph, TRUE, TRUE)
        ELSE IF StateRank(c1.cnx_state) <= StateRank("ready")
        THEN Handled("OK", picoquic_ignore_incoming_handshake(c1, seg, ph), FALSE, <<>>)
        ELSE Handled("UNEXPECTED_PACKET", c1, FALSE, <<>>)

ZeroRttAfterOneRtt(c, seg, ph) ==
    IF ~(ph.dest_cnx_id = c.initial_cnxid \/ ph.dest_cnx_id = c.local_cnxid)
       \/ ph.srce_cnx_id # c.remote_cnxid
    THEN Handled("CNXID_CHECK", c, FALSE, <<>>)
    ELSE IF c.cnx_state \in {"server_almost_ready", "server_false_start", "ready"}
    THEN IF ph.vn # "ok"
         THEN LET e == picoquic_connection_error(c) IN Handled(e.ret, e.c, FALSE, <<>>)
         ELSE AcceptFrames(c, seg, ph, TRUE, TRUE)
    ELSE Handled("UNEXPECTED_PACKET", c, FALSE, <<>>)

picoquic_incoming_0rtt(c, seg, ph) ==
    IF ~(ph.dest_cnx_id = c.initial_cnxid \/ ph.dest_cnx_id = c.local_cnxid)
       \/ ph.srce_cnx_id # c.remote_cnxid
    THEN Handled("CNXID_CHECK", c, FALSE, <<>>)
    ELSE IF c.cnx_state \in {"server_almost_ready", "server_false_start"}
            \/ (c.cnx_state = "ready" /\ ~c.is_1rtt_received)
    THEN IF ph.vn # "ok"
         THEN LET e == picoquic_connection_error(c) IN Handled(e.ret, e.c, FALSE, <<>>)
         ELSE AcceptFrames(c, seg, ph, TRUE, TRUE)
    ELSE Handled("UNEXPECTED_PACKET", c, FALSE, <<>>)

(* a stateless packet queued for sending: kind, destination address, and the
   connection ID it is logged under *)
StatelessPacket(kind, addr, cid, bytes) ==
    [kind |-> kind, addr_to |-> addr, initial_cid |-> cid, bytes |-> bytes]

(* picoquic_prepare_retry_token: the token is bound to the address of the client and
   to the connection ID of its Initial packet; its expiry time is not represented *)
picoquic_prepare_retry_token(addr, odcid) == [addr |-> addr, odcid |-> odcid]

(* lines 1213-1266: the Retry packet goes to the source connection ID of the Initial
   and carries the initial connection ID of the context and the token *)
picoquic_queue_stateless_retry(c, ph, addr, token) ==
    <<StatelessPacket("retry", addr, c.initial_cnxid,
                      [ptype |-> "retry", dest_cnx_id |-> ph.srce_cnx_id,
                       srce_cnx_id |-> c.local_cnxid, odcid |-> c.initial_cnxid,
                       token |-> token])>>

(* lines 1340-1362: the retry token check of a server that validates addresses *)
RetryNotQueued(q, c, seg, ph, addr) ==
    IF "check_token" \in q.flags /\ c.cnx_state = "server_init"
       /\ "server_busy" \notin q.flags
    THEN IF seg.token # "valid"
         THEN [ret |-> "RETRY", c |-> [c EXCEPT !.remote_cnxid = ph.srce_cnx_id],
               sp |-> <<>>]
         ELSE [ret |-> "OK",
               c |-> [c EXCEPT !.initial_validated = TRUE, !.original_cnxid = seg.odcid],
               sp |-> <<>>]
    ELSE [ret |-> "OK", c |-> c, sp |-> <<>>]

TokenCheck(q, c, seg, ph, addr) ==
    IF "check_token" \in q.flags /\ c.cnx_state = "server_init"
       /\ "server_busy" \notin q.flags
    THEN IF seg.token # "valid"
         THEN [ret |-> "RETRY", c |-> [c EXCEPT !.remote_cnxid = ph.srce_cnx_id],
               sp |-> picoquic_queue_stateless_retry(
                          c, ph, addr, picoquic_prepare_retry_token(addr, ph.dest_cnx_id))]
         ELSE [ret |-> "OK",
               c |-> [c EXCEPT !.initial_validated = TRUE, !.original_cnxid = seg.odcid],
               sp |-> <<>>]
    ELSE [ret |-> "OK", c |-> c, sp |-> <<>>]

(* lines 1364-1414 *)
ClientInitialBody(q, c, seg, ph, packet_length) ==
    LET c1 == IF ph.dest_cnx_id = c.local_cnxid
              THEN [c EXCEPT !.initial_validated = TRUE] ELSE c
        c2 == IF ~c1.initial_validated /\ c1.retransmit_oldest # NoTime
                 /\ packet_length >= PICOQUIC_ENFORCED_INITIAL_MTU
              THEN [c1 EXCEPT !.initial_repeat_needed = TRUE] ELSE c1
    IN  IF c2.cnx_state = "server_init" /\ "server_busy" \in q.flags
        THEN Handled("OK", [c2 EXCEPT !.local_error = "server_busy",
                                      !.cnx_state = "handshake_failure"], FALSE, <<>>)
        ELSE IF c2.cnx_state = "server_init"
                /\ CidLen(c2.initial_cnxid) < PICOQUIC_ENFORCED_INITIAL_CID_LENGTH
        THEN Handled("OK", [c2 EXCEPT !.local_error = "protocol_violation",
                                      !.cnx_state = "handshake_failure"], FALSE, <<>>)
        ELSE IF StateRank(c2.cnx_state) < StateRank("server_almost_ready")
        THEN AcceptFrames(StoreLocalAddr(c2), seg, ph, FALSE, TRUE)
        ELSE IF StateRank(c2.cnx_state) < StateRank("ready")
        THEN Handled("OK", picoquic_ignore_incoming_handshake(c2, seg, ph), FALSE, <<>>)
        ELSE Handled("UNEXPECTED_PACKET", c2, FALSE, <<>>)

(* the result also tells whether the connection context was deleted *)
picoquic_incoming_client_initial(q, c, seg, ph, packet_length, addr, new_context_created) ==
    LET t == TokenCheck(q, c, seg, ph, addr)
        h == IF t.ret = "OK" THEN ClientInitialBody(q, t.c, seg, ph, packet_length)
             ELSE Handled(t.ret, t.c, FALSE, <<>>)
        delete == (h.ret # "OK" \/ h.c.cnx_state = "disconnected") /\ new_context_created
    IN  [ret |-> IF delete THEN "CONNECTION_DELETED" ELSE h.ret, c |-> h.c,
         decoded |-> h.decoded, cb |-> h.cb, sp |-> t.sp, deleted |-> delete]

picoquic_find_incoming_path(c0, ph, addr, current_time) ==
    IF ph.dest_cnx_id # c0.local_cnxid THEN [ret |-> "CNXID_CHECK", c |-> c0]
    ELSE LET c == StoreLocalAddr(c0) IN
    IF c.peer_addr = addr THEN [ret |-> "OK", c |-> [c EXCEPT !.path_is_activated = TRUE]]
    ELSE IF c.alt_peer_addr = addr THEN
        IF current_time > c.alt_challenge_timeout
        THEN [ret |-> "OK", c |-> [c EXCEPT !.alt_challenge_timeout = 0,
                                            !.alt_challenge_required = TRUE,
                                            !.challenge_required = TRUE]]
        ELSE [ret |-> "OK", c |-> c]
    ELSE IF (c.alt_peer_addr = 0 \/ c.alt_challenge_timeout > current_time)
            /\ ph.pn64 >= end_of_sack_range(c, "application")
    THEN [ret |-> "OK", c |-> [c EXCEPT !.alt_peer_addr = addr,
                                        !.alt_challenge_required = TRUE,
                                        !.alt_challenge_timeout = 0,
                                        !.challenge_required = TRUE]]
    ELSE [ret |-> "OK", c |-> c]

ClosingFramesInEveryClosingState(c, seg, ph, addr, current_time) ==
    IF StateRank(c.cnx_state) < StateRank("client_almost_ready")
       \/ c.cnx_state = "disconnected"
    THEN Handled("UNEXPECTED_PACKET", c, FALSE, <<>>)
    ELSE IF StateRank(c.cnx_state) >= StateRank("closing_received") THEN
        LET d == picoquic_decode_closing_frames(seg.frames)
        IN  IF d.ret # "OK" THEN Handled(d.ret, c, FALSE, <<>>)
            ELSE IF d.closing_received
            THEN Handled("OK", [c EXCEPT !.cnx_state = IF c.client_mode THEN "disconnected"
                                                       ELSE "draining"], FALSE, <<>>)
            ELSE Handled("OK", [c EXCEPT !.ack_needed = @ \cup {ph.pc}], FALSE, <<>>)
    ELSE IF ph.payload_length = 0 \/ ph.has_reserved_bit_set
    THEN LET e == picoquic_connection_error(c) IN Handled(e.ret, e.c, FALSE, <<>>)
    ELSE
        LET f == picoquic_find_incoming_path(c, ph, addr, current_time)
        IN  IF f.ret # "OK" THEN Handled(f.ret, f.c, FALSE, <<>>)
            ELSE AcceptFrames([f.c EXCEPT !.is_1rtt_received = TRUE], seg, ph, FALSE, TRUE)

picoquic_incoming_encrypted(c, seg, ph, addr, current_time) ==
    IF StateRank(c.cnx_state) < StateRank("client_almost_ready")
       \/ c.cnx_state = "disconnected"
    THEN Handled("UNEXPECTED_PACKET", c, FALSE, <<>>)
    ELSE IF StateRank(c.cnx_state) >= StateRank("closing_received") THEN
        IF c.cnx_state = "closing" THEN
            LET d == picoquic_decode_closing_frames(seg.frames)
            IN  IF d.ret # "OK" THEN Handled(d.ret, c, FALSE, <<>>)
                ELSE IF d.closing_received
                THEN Handled("OK", [c EXCEPT !.cnx_state = IF c.client_mode THEN "disconnected"
                                                           ELSE "draining"], FALSE, <<>>)
                ELSE Handled("OK", [c EXCEPT !.ack_needed = @ \cup {ph.pc}], FALSE, <<>>)
        ELSE Handled("UNEXPECTED_PACKET", c, FALSE, <<>>)
    ELSE IF ph.payload_length = 0 \/ ph.has_reserved_bit_set
    THEN LET e == picoquic_connection_error(c) IN Handled(e.ret, e.c, FALSE, <<>>)
    ELSE
        LET f == picoquic_find_incoming_path(c, ph, addr, current_time)
        IN  IF f.ret # "OK" THEN Handled(f.ret, f.c, FALSE, <<>>)
            ELSE AcceptFrames([f.c EXCEPT !.is_1rtt_received = TRUE], seg, ph, FALSE, TRUE)

(***************************************************************************)
(* picoquic_incoming_segment                                               *)
(***************************************************************************)
(* The random numbers that the two functions below draw: random.r64 is the value
   that picoquic_public_random_64 and picoquic_public_random return, random.grease
   the successive results of the masking at line 1115. *)
NoRandom == [r64 |-> 0, grease |-> <<"grease1", "grease2">>]

picoquic_public_uniform_random(random, n) == (random.r64 \div 32) % n

(* the loop at lines 1114-1116 ends with the first draw that is not the version of
   the packet *)
GreaseVersion(random, vn) ==
    IF random.grease[1] # vn THEN random.grease[1] ELSE random.grease[2]

GreaseMayMatchOffer(addr, ph, random) ==
    <<StatelessPacket("version_negotiation", addr, ph.dest_cnx_id,
                      [first_byte |-> BitOr(random.r64 % 256, 128), vn |-> "zero",
                       dest_cnx_id |-> ph.srce_cnx_id, srce_cnx_id |-> ph.dest_cnx_id,
                       versions |-> <<"ok", "other", random.grease[1]>>])>>

(* the versions listed are those of picoquic_supported_versions, then the grease *)
picoquic_prepare_version_negotiation(addr, ph, random) ==
    <<StatelessPacket("version_negotiation", addr, ph.dest_cnx_id,
                      [first_byte |-> BitOr(random.r64 % 256, 128), vn |-> "zero",
                       dest_cnx_id |-> ph.srce_cnx_id, srce_cnx_id |-> ph.dest_cnx_id,
                       versions |-> <<"ok", "other", GreaseVersion(random, ph.vn)>>])>>

(* picoquic_create_cnxid_reset_secret: the secret is a function of the connection ID *)
picoquic_create_cnxid_reset_secret(cid) == cid

(* lines 1178-1187: sp->length, the first byte, the padding and the reset secret *)
StatelessResetLength(sp) == 1 + sp.bytes.pad_size + PICOQUIC_RESET_SECRET_SIZE

ResetWithoutMinimumPad(length, addr, ph, random) ==
    IF length > PICOQUIC_RESET_PACKET_MIN_SIZE /\ ph.ptype = "1rtt_protected"
    THEN <<StatelessPacket("stateless_reset", addr, ph.dest_cnx_id,
              [first_byte |-> BitOr(48, BitAnd(random.r64, 31)),
               pad_size |-> picoquic_public_uniform_random(
                                random, length - PICOQUIC_RESET_SECRET_SIZE),
               secret |-> picoquic_create_cnxid_reset_secret(ph.dest_cnx_id)])>>
    ELSE <<>>

picoquic_process_unexpected_cnxid(length, addr, ph, random) ==
    IF length > PICOQUIC_RESET_PACKET_MIN_SIZE /\ ph.ptype = "1rtt_protected"
    THEN LET pad_size == length - PICOQUIC_RESET_SECRET_SIZE - 1
         IN  <<StatelessPacket("stateless_reset", addr, ph.dest_cnx_id,
                  [first_byte |-> BitOr(48, BitAnd(random.r64, 31)),
                   pad_size |-> IF pad_size > PICOQUIC_RESET_PACKET_PAD_SIZE
                                THEN picoquic_public_uniform_random(
                                         random, pad_size - PICOQUIC_RESET_PACKET_PAD_SIZE)
                                     + PICOQUIC_RESET_PACKET_PAD_SIZE
                                ELSE PICOQUIC_RESET_PACKET_PAD_SIZE,
                   secret |-> picoquic_create_cnxid_reset_secret(ph.dest_cnx_id)])>>
    ELSE <<>>

(* the outcome of the dispatch: return code, registry, connection context, the
   handler that ran, frames decoded, callbacks made, stateless packets queued *)
Dispatched(ret, reg, cnx, handler, decoded, cb, sp) ==
    [ret |-> ret, reg |-> reg, cnx |-> cnx, handler |-> handler, decoded |-> decoded,
     cb |-> cb, sp |-> sp]

FromHandler(reg, cnx, handler, h) ==
    Dispatched(h.ret, [reg EXCEPT ![cnx] = h.c], cnx, handler, h.decoded, h.cb, <<>>)

(* lines 2176-2203: an Initial packet on a known connection context *)
DispatchInitial(q, d, seg, packet_length, addr) ==
    LET c == d.reg[d.cnx]
        ph == d.ph
    IN  IF (~c.client_mode /\ ph.dest_cnx_id = c.initial_cnxid)
           \/ ph.dest_cnx_id = c.local_cnxid
        THEN
            LET c1 == IF c.remote_cnxid = NullCid
                      THEN [c EXCEPT !.remote_cnxid = ph.srce_cnx_id] ELSE c
            IN  IF c1.remote_cnxid # ph.srce_cnx_id
                THEN Dispatched("UNEXPECTED_PACKET", d.reg, d.cnx, "none", FALSE, <<>>, <<>>)
                ELSE IF ~c1.client_mode THEN
                    TheOne({IF h.deleted
                            THEN Dispatched(h.ret, picoquic_delete_cnx(d.reg, d.cnx), NoCnx,
                                            "client_initial", h.decoded, h.cb, h.sp)
                            ELSE Dispatched(h.ret, [d.reg EXCEPT ![d.cnx] = h.c], d.cnx,
                                            "client_initial", h.decoded, h.cb, h.sp)
                            : h \in {picoquic_incoming_client_initial(
                                         q, c1, seg, ph, packet_length, addr,
                                         d.new_ctx_created)}})
                ELSE FromHandler(d.reg, d.cnx, "server_initial",
                                 picoquic_incoming_server_initial(c1, seg, ph))
        ELSE Dispatched("DETECTED", d.reg, d.cnx, "none", FALSE, <<>>, <<>>)

(* lines 2145-2247: what is done with the result of parsing and decryption *)
DispatchSegment(q, d, ret, seg, a) ==
    LET ph == d.ph
        length == a.length
        packet_length == a.packet_length
        addr == a.addr
        current_time == a.current_time
        none == Dispatched(ret, d.reg, d.cnx, "none", FALSE, <<>>, <<>>)
    IN  IF ret = "OK" THEN
            IF d.cnx = NoCnx THEN
                IF ph.version_index < 0 /\ ph.vn # "zero"
                THEN [none EXCEPT !.sp = IF packet_length >= PICOQUIC_ENFORCED_INITIAL_MTU
                                         THEN picoquic_prepare_version_negotiation(
                                                  addr, ph, a.random)
                                         ELSE <<>>]
                ELSE [none EXCEPT !.ret = "DETECTED",
                                  !.sp = IF ph.dest_cnx_id # NullCid
                                         THEN picoquic_process_unexpected_cnxid(
                                                  length, addr, ph, a.random)
                                         ELSE <<>>]
            ELSE
                LET c == d.reg[d.cnx]
                IN  CASE ph.ptype = "version_negotiation" ->
                            IF c.cnx_state = "client_init_sent"
                            THEN FromHandler(d.reg, d.cnx, "version_negotiation",
                                     picoquic_incoming_version_negotiation(c, seg, ph, length))
                            ELSE [none EXCEPT !.ret = "DETECTED"]
                      [] ph.ptype = "initial" ->
                            DispatchInitial(q, d, seg, packet_length, addr)
                      [] ph.ptype = "retry" ->
                            FromHandler(d.reg, d.cnx, "retry",
                                        picoquic_incoming_retry(c, seg, ph))
                      [] ph.ptype = "handshake" ->
                            IF c.client_mode
                            THEN FromHandler(d.reg, d.cnx, "server_handshake",
                                             picoquic_incoming_server_handshake(c, seg, ph))
                            ELSE FromHandler(d.reg, d.cnx, "client_handshake",
                                             picoquic_incoming_client_handshake(c, seg, ph))
                      [] ph.ptype = "0rtt_protected" ->
                            FromHandler(d.reg, d.cnx, "0rtt", picoquic_incoming_0rtt(c, seg, ph))
                      [] ph.ptype = "1rtt_protected" ->
                            FromHandler(d.reg, d.cnx, "encrypted",
                                picoquic_incoming_encrypted(c, seg, ph, addr, current_time))
                      [] OTHER -> [none EXCEPT !.ret = "DETECTED"]
        ELSE IF ret = "STATELESS_RESET"
        THEN FromHandler(d.reg, d.cnx, "stateless_reset",
                         picoquic_incoming_stateless_reset(d.reg[d.cnx]))
        ELSE IF ret = "AEAD_CHECK" /\ ph.ptype = "handshake" /\ d.cnx # NoCnx
        THEN LET c == d.reg[d.cnx]
             IN  IF c.cnx_state \in {"client_init_sent", "client_init_resent"}
                    /\ c.retransmit_oldest # NoTime /\ c.nb_retransmit = 0
                 THEN [none EXCEPT !.reg = [d.reg EXCEPT ![d.cnx].retransmit_timer =
                                               current_time - c.retransmit_oldest]]
                 ELSE none
        ELSE none

BenignDrops ==
    {"AEAD_CHECK", "INITIAL_TOO_SHORT", "INITIAL_CID_TOO_SHORT", "UNEXPECTED_PACKET",
     "CNXID_CHECK", "RETRY", "DETECTED", "CONNECTION_DELETED", "CNXID_SEGMENT"}

(* lines 2249-2296: the return code of picoquic_incoming_segment *)
AeadCheckStopsLoop(outcome) ==
    IF outcome \in {"OK", "SPURIOUS_REPEAT"} THEN 0 ELSE -1

SegmentReturn(outcome) ==
    IF outcome \in {"OK", "SPURIOUS_REPEAT"} THEN 0
    ELSE IF outcome = "DUPLICATE" THEN -1
    ELSE IF outcome \in BenignDrops THEN (IF outcome = "AEAD_CHECK" THEN 0 ELSE -1)
    ELSE -1

(* lines 2249-2263: a packet number is marked as received, or a duplicate asks for
   an acknowledgement *)
RecordsDroppedPackets(x, ph) ==
    IF x.cnx # NoCnx /\ x.reg[x.cnx].cnx_state # "disconnected"
       /\ ph.ptype # "version_negotiation" /\ x.ret # "DUPLICATE"
    THEN [reg |-> [x.reg EXCEPT ![x.cnx] = picoquic_record_pn_received(@, ph.pc, ph.pn64)],
          recorded |-> TRUE]
    ELSE [reg |-> x.reg, recorded |-> FALSE]

DuplicateWithoutAck(x, ph) ==
    IF x.ret \in {"OK", "SPURIOUS_REPEAT"} THEN
        IF x.cnx # NoCnx /\ x.reg[x.cnx].cnx_state # "disconnected"
           /\ ph.ptype # "version_negotiation"
        THEN [reg |-> [x.reg EXCEPT ![x.cnx] = picoquic_record_pn_received(@, ph.pc, ph.pn64)],
              recorded |-> TRUE]
        ELSE [reg |-> x.reg, recorded |-> FALSE]
    ELSE [reg |-> x.reg, recorded |-> FALSE]

FinishSegment(x, ph) ==
    IF x.ret \in {"OK", "SPURIOUS_REPEAT"} THEN
        IF x.cnx # NoCnx /\ x.reg[x.cnx].cnx_state # "disconnected"
           /\ ph.ptype # "version_negotiation"
        THEN [reg |-> [x.reg EXCEPT ![x.cnx] = picoquic_record_pn_received(@, ph.pc, ph.pn64)],
              recorded |-> TRUE]
        ELSE [reg |-> x.reg, recorded |-> FALSE]
    ELSE IF x.ret = "DUPLICATE" /\ x.cnx # NoCnx
    THEN [reg |-> [x.reg EXCEPT ![x.cnx].ack_needed = @ \cup {ph.pc}], recorded |-> FALSE]
    ELSE [reg |-> x.reg, recorded |-> FALSE]

(* lines 2115-2134: all the segments of a datagram must have the same destination ID *)
CoalescingCheck(ret, ph, previous_dest_id) ==
    IF ret # "OK" THEN [ret |-> ret, previous_dest_id |-> previous_dest_id]
    ELSE IF previous_dest_id = NullCid
    THEN [ret |-> ret, previous_dest_id |-> ph.dest_cnx_id]
    ELSE IF previous_dest_id # ph.dest_cnx_id
    THEN [ret |-> "CNXID_SEGMENT", previous_dest_id |-> previous_dest_id]
    ELSE [ret |-> ret, previous_dest_id |-> previous_dest_id]

(* what picoquic_incoming_segment leaves behind: d from parsing and decryption, k
   from the coalescing check, x from the dispatch, f from the final bookkeeping *)
SegmentResult(d, k, x, f) ==
    [ret |-> SegmentReturn(x.ret), outcome |-> x.ret, decrypt |-> d.ret,
     reg |-> f.reg, cnx |-> x.cnx, found |-> d.cnx, ph |-> d.ph,
     consumed |-> d.consumed, previous_dest_id |-> k.previous_dest_id,
     created |-> d.made, key |-> d.key, handler |-> x.handler,
     decoded |-> x.decoded, cb |-> x.cb, sp |-> x.sp, recorded |-> f.recorded]

(* a holds the arguments length, packet_length, addr (addr_from) and current_time,
   and the random numbers drawn during the call *)
picoquic_incoming_segment(q, reg, seg, a, previous_dest_id) ==
    TheOne({
        TheOne({
            TheOne({
                TheOne({SegmentResult(d, k, x, f) : f \in {FinishSegment(x, d.ph)}})
                : x \in {DispatchSegment(q, d, k.ret, seg, a)}})
            : k \in {CoalescingCheck(d.ret, d.ph, previous_dest_id)}})
        : d \in {picoquic_parse_header_and_decrypt(q, reg, seg, a.length, a.packet_length,
                                                   a.addr, a.current_time)}})

(***************************************************************************)
(* The datagrams the endpoint receives.                                    *)
(***************************************************************************)
MaxSegs == 2

MaxPackets == 1

MaxTime == 1

MaxQueue == 2

Addrs == {1, 2}

PacketLengths ==
    {8, PICOQUIC_RESET_PACKET_MIN_SIZE - 1, PICOQUIC_RESET_PACKET_MIN_SIZE,
     PICOQUIC_ENFORCED_INITIAL_MTU - 1, PICOQUIC_ENFORCED_INITIAL_MTU}

BaseSeg ==
    [form |-> "long", vn |-> "ok", tbits |-> "handshake", dcid |-> LocalCid(1), scid |-> 3,
     fill |-> FALSE, pn_l |-> 1, pn |-> 0, sealed |-> 0, key_phase |-> 0, rsv |-> FALSE,
     quic_bit |-> TRUE, frames |-> "data", tail |-> 0, token |-> "none", odcid |-> NullCid]

(* sealed key, packet number, packet number length, frames *)
Payloads ==
    {<<NoKey, 0, 1, "data">>, <<0, 0, 1, "data">>, <<0, 1, 1, "data">>, <<0, 1, 1, "tls">>,
     <<0, 1, 1, "ack">>, <<0, 1, 1, "bad">>, <<0, 1, 4, "empty">>, <<0, 1, 1, "close">>,
     <<0, 1, 1, "tiny">>, <<0, 1, 1, "tlsbad">>}

FewPayloads == {<<NoKey, 0, 1, "data">>, <<0, 1, 1, "data">>, <<0, 1, 1, "tls">>}

WithPayload(seg, pl) ==
    [seg EXCEPT !.sealed = pl[1], !.pn = pl[2], !.pn_l = pl[3], !.frames = pl[4]]

LongSegments ==
    {WithPayload([BaseSeg EXCEPT !.tbits = t, !.dcid = d], pl) :
        t \in {"initial", "handshake"}, d \in {2, LocalCid(1)}, pl \in Payloads}
    \cup {WithPayload([BaseSeg EXCEPT !.tbits = t, !.dcid = d], pl) :
            t \in {"initial", "handshake"}, d \in {ShortCid, 3, LocalCid(2)},
            pl \in FewPayloads}
    \cup {WithPayload([BaseSeg EXCEPT !.tbits = "0rtt", !.dcid = d], pl) :
            d \in {2, LocalCid(1)}, pl \in FewPayloads \cup {<<0, 1, 4, "empty">>}}
    \cup {[BaseSeg EXCEPT !.tbits = "initial", !.dcid = d, !.fill = TRUE, !.sealed = k,
                          !.pn = 1] :
            d \in {2, LocalCid(1)}, k \in {NoKey, 0}}
    \cup {[BaseSeg EXCEPT !.tbits = t, !.dcid = d, !.scid = 2, !.pn = 1] :
            t \in {"initial", "0rtt", "handshake"}, d \in {2, LocalCid(1)}}
    \cup {[BaseSeg EXCEPT !.tbits = "initial", !.dcid = d, !.token = k, !.odcid = 3,
                          !.frames = "tls", !.pn = 1] :
            d \in {2, LocalCid(1)}, k \in {"valid", "invalid"}}

OtherLongSegments ==
    {[BaseSeg EXCEPT !.vn = "zero", !.dcid = d] : d \in {NullCid, 2, LocalCid(1)}}
    \cup {[BaseSeg EXCEPT !.vn = "bad", !.tbits = "initial", !.dcid = 2]}
    \cup {[BaseSeg EXCEPT !.tbits = "invalid", !.dcid = 2]}
    \cup {[BaseSeg EXCEPT !.tbits = "retry", !.odcid = o, !.token = "valid"] : o \in {2, 3}}

ShortSegments ==
    {[BaseSeg EXCEPT !.form = "short", !.fill = TRUE, !.sealed = k, !.pn = n, !.frames = f] :
        k \in {0, NoKey}, n \in {0, 1}, f \in {"data", "close", "bad"}}
    \cup {[BaseSeg EXCEPT !.form = "short", !.fill = TRUE, !.dcid = d, !.sealed = NoKey,
                          !.tail = t] :
            d \in {2} \cup LocalCids, t \in {0} \cup LocalCids}
    \cup {[BaseSeg EXCEPT !.form = "short", !.fill = TRUE, !.rsv = TRUE, !.pn = 1],
          [BaseSeg EXCEPT !.form = "short", !.fill = TRUE, !.quic_bit = FALSE],
          [BaseSeg EXCEPT !.form = "short", !.fill = TRUE, !.dcid = LocalCid(2), !.pn = 1]}

Segments == LongSegments \cup OtherLongSegments \cup ShortSegments

(* the first segment of a datagram of the given length; datagrams shorter than
   a full-size Initial are tried with the segments whose handling looks at the length *)
FirstSegments(packet_length) ==
    IF packet_length >= PICOQUIC_ENFORCED_INITIAL_MTU THEN Segments
    ELSE IF packet_length = PICOQUIC_ENFORCED_INITIAL_MTU - 1
    THEN {seg \in Segments : seg.form = "long" /\ (seg.tbits = "initial" \/ seg.vn = "bad")}
    ELSE {seg \in Segments : seg.form = "short" \/ seg.fill \/ seg.vn = "bad"}

(***************************************************************************)
(* The endpoint at the start: its configuration and the connection         *)
(* contexts it already has.  A connection that completed the handshake     *)
(* has received packet 0 in every packet number space.                     *)
(***************************************************************************)
DefaultQuic == [flags |-> {}, default_callback_fn |-> TRUE, local_cnxid_length |-> 8]

ClientCnx(state, keys, remote, cb) ==
    [NewCnx(TRUE, state, 2, LocalCid(1), remote, 1, cb) EXCEPT
        !.keys = keys,
        !.local_addr = IF 3 \in keys THEN AddrTo ELSE 0,
        !.retransmit_oldest = IF state = "client_init_sent" THEN 0 ELSE NoTime,
        !.sack = [pc \in PacketContexts |->
                     IF 3 \in keys \/ (2 \in keys /\ pc = "initial") THEN {0} ELSE {}]]

ServerCnx(slot, state, cb) ==
    [NewCnx(FALSE, state, 2, LocalCid(slot), 3, slot, cb) EXCEPT
        !.keys = {0, 1, 2, 3},
        !.local_addr = AddrTo,
        !.sack = [pc \in PacketContexts |-> IF pc = "application" /\ state # "ready"
                                            THEN {} ELSE {0}]]

InitialEndpoints ==
    {<<q, <<>>>> : q \in {DefaultQuic, [DefaultQuic EXCEPT !.default_callback_fn = FALSE],
                          [DefaultQuic EXCEPT !.flags = {"check_token"}],
                          [DefaultQuic EXCEPT !.flags = {"server_busy"}]}}
    \cup {<<DefaultQuic, <<ClientCnx("client_init_sent", {0}, NullCid, TRUE)>>>>,
          <<DefaultQuic, <<ClientCnx("client_handshake_progress", {0, 2}, 3, TRUE)>>>>}
    \cup {<<DefaultQuic, <<ClientCnx("ready", {0, 2, 3}, 3, cb)>>>> : cb \in BOOLEAN}
    \cup {<<DefaultQuic, <<ServerCnx(1, st, TRUE)>>>> :
            st \in {"server_false_start", "ready", "closing", "disconnected"}}
    \cup {<<DefaultQuic, <<ClientCnx("disconnected", {0, 2, 3}, 3, TRUE)>>>>}
    \cup {<<DefaultQuic, <<ServerCnx(1, "ready", TRUE),
                           ServerCnx(2, "server_false_start", TRUE)>>>>}
    \cup {<<[DefaultQuic EXCEPT !.flags = {"check_token"}],
            <<[ServerCnx(1, "server_init", TRUE) EXCEPT
                  !.keys = {0}, !.local_addr = 0, !.initial_validated = TRUE, !.original_cnxid = 3,
                  !.sack = [pc \in PacketContexts |-> IF pc = "initial" THEN {0} ELSE {}]]>>>>}

RxIdle ==
    [active |-> FALSE, index |-> 0, packet_length |-> 0, consumed_index |-> 0,
     addr_from |-> 0, current_time |-> 0, previous_destid |-> NullCid, first_dcid |-> NullCid,
     packets |-> 0, random |-> NoRandom]

NoLast == [index |-> 0]

(***************************************************************************)
(* Inputs of the packet number reconstruction: values of `highest` on both *)
(* sides of every window boundary and half window, inside the packet       *)
(* number space of QUIC (below 2^62), and truncated packet numbers at the  *)
(* low end, the middle and the high end of each window.                    *)
(***************************************************************************)
PnEdge == 2

PnLengths == 1..4

PnWindow(pn_l) == U64Shl8(U64Of(1), pn_l)

PnHalfWindow(pn_l) == U64Shl8(U64Of(128), pn_l - 1)

PnMaxSpace == U64Shl8(U64Of(64), 7)

PnBases == {PnWindow(l) : l \in PnLengths} \cup {PnHalfWindow(l) : l \in PnLengths}
           \cup {U64Add(PnWindow(l), PnHalfWindow(l)) : l \in PnLengths}
           \cup {U64Shl8(U64Of(509), 0), PnMaxSpace}

PnHighestValues ==
    {U64Of(d) : d \in 0..PnEdge}
    \cup {U64Sub(b, U64Of(d)) : b \in PnBases, d \in 2..(PnEdge + 2)}
    \cup {U64Add(b, U64Of(d)) : b \in PnBases \ {PnMaxSpace}, d \in 0..PnEdge}
    \cup {U64Sub(b, U64Of(1)) : b \in PnBases \ {PnMaxSpace}}

PnTruncValues(pn_l) ==
    {U64Of(d) : d \in 0..PnEdge}
    \cup {U64Sub(PnHalfWindow(pn_l), U64Of(d)) : d \in 0..PnEdge}
    \cup {U64Add(PnHalfWindow(pn_l), U64Of(d)) : d \in 1..PnEdge}
    \cup {U64Sub(PnWindow(pn_l), U64Of(d)) : d \in 1..(PnEdge + 1)}

PnIdle == [phase |-> "idle", highest |-> U64Of(0), pn_l |-> 1, pn |-> U64Of(0),
           pn64 |-> U64Of(0)]

InitPN ==
    /\ path_x = NoPath
    /\ quic = [DefaultQuic EXCEPT !.default_callback_fn = FALSE]
    /\ cnxs = <<>>
    /\ sp_queue = <<>>
    /\ rx = RxIdle
    /\ last = NoLast
    /\ \E h \in PnHighestValues, l \in PnLengths :
         \E p \in PnTruncValues(l) :
             pnx = [phase |-> "input", highest |-> h, pn_l |-> l, pn |-> p,
                   pn64 |-> U64Of(0)]

(* One call of picoquic_get_packet_number64 as made by header protection removal *)
DecodePacketNumber ==
    /\ pnx.phase = "input"
    /\ UNCHANGED <<path_x, quic, cnxs, sp_queue, rx, last>>
    /\ pnx' = [pnx EXCEPT !.phase = "done",
                          !.pn64 = picoquic_get_packet_number64(
                                       pnx.highest, PnMask(pnx.pn_l), pnx.pn)]

NextPN == DecodePacketNumber

SpecPN == InitPN /\ [][NextPN]_vars

(***************************************************************************)
(* picoquic_incoming_packet: the loop over the segments of a datagram.     *)
(* One step of the model is one iteration of the loop; rx is the state of  *)
(* the loop and last describes the iteration just made.                    *)
(***************************************************************************)
LoopIterationFrom(queue, rxc, seg) ==
    \E r \in {picoquic_incoming_segment(
                   quic, cnxs, seg,
                   [length |-> rxc.packet_length - rxc.consumed_index,
                    packet_length |-> rxc.packet_length, addr |-> rxc.addr_from,
                    current_time |-> rxc.current_time, random |-> rxc.random],
                   rxc.previous_destid)} :
    LET length == rxc.packet_length - rxc.consumed_index
        consumed_index == IF r.ret = 0 THEN rxc.consumed_index + r.consumed
                          ELSE rxc.consumed_index
        first_dcid == IF rxc.index = 0 THEN seg.dcid ELSE rxc.first_dcid
        more == r.ret = 0 /\ consumed_index < rxc.packet_length
    IN  /\ more => rxc.index + 1 < MaxSegs
        /\ cnxs' = r.reg
        /\ sp_queue' = queue \o r.sp
        /\ rx' = IF more
                 THEN [rxc EXCEPT !.index = @ + 1, !.consumed_index = consumed_index,
                                  !.previous_destid = r.previous_dest_id,
                                  !.first_dcid = first_dcid, !.random = NoRandom]
                 ELSE [RxIdle EXCEPT !.current_time = rxc.current_time,
                                     !.packets = rxc.packets]
        /\ last' = [index |-> rxc.index + 1, seg |-> seg, length |-> length,
                    packet_length |-> rxc.packet_length, addr_from |-> rxc.addr_from,
                    current_time |-> rxc.current_time, first_dcid |-> first_dcid,
                    ret |-> r.ret, outcome |-> r.outcome, decrypt |-> r.decrypt,
                    cnx |-> r.cnx, found |-> r.found, ph |-> r.ph, created |-> r.created,
                    key |-> r.key, handler |-> r.handler, decoded |-> r.decoded,
                    cb |-> r.cb, sp |-> r.sp, recorded |-> r.recorded, more |-> more,
                    random |-> rxc.random, consumed |-> r.consumed,
                    consumed_index |-> consumed_index,
                    incoming_ret |-> IF r.ret = 0 THEN r.ret ELSE 0]
        /\ UNCHANGED <<pnx, path_x, quic>>

(* the iteration when the datagram did not come out of sp_queue *)
LoopIteration(rxc, seg) == LoopIterationFrom(sp_queue, rxc, seg)

(* a datagram arrives: the call of picoquic_incoming_packet and its first iteration *)
picoquic_incoming_packet ==
    /\ ~rx.active
    /\ rx.packets < MaxPackets
    /\ Len(sp_queue) < MaxQueue
    /\ \E addr \in Addrs, packet_length \in PacketLengths,
          t \in {rx.current_time, rx.current_time + 1} :
        \E seg \in FirstSegments(packet_length) :
          /\ t <= MaxTime
          /\ LoopIteration([RxIdle EXCEPT !.active = TRUE, !.packet_length = packet_length,
                                          !.addr_from = addr, !.current_time = t,
                                          !.packets = rx.packets + 1], seg)

(* the later iterations of the loop; the last segment that the bound allows is one
   that extends to the end of the datagram *)
NextSegment ==
    /\ rx.active
    /\ \E seg \in Segments :
         LoopIteration(rx, IF rx.index + 1 = MaxSegs THEN [seg EXCEPT !.fill = TRUE] ELSE seg)

(* the socket loop takes a stateless packet from the queue and sends it *)
picoquic_dequeue_stateless_packet ==
    /\ ~rx.active
    /\ sp_queue # <<>>
    /\ sp_queue' = Tail(sp_queue)
    /\ UNCHANGED <<pnx, path_x, quic, cnxs, rx, last>>

Init ==
    /\ pnx = PnIdle
    /\ path_x = NoPath
    /\ \E e \in InitialEndpoints : quic = e[1] /\ cnxs = e[2]
    /\ sp_queue = <<>>
    /\ rx = RxIdle
    /\ last = NoLast

Next ==
    \/ picoquic_incoming_packet
    \/ NextSegment
    \/ picoquic_dequeue_stateless_packet

Spec == Init /\ [][Next]_vars

(***************************************************************************)
(* 1-RTT traffic with key updates: a client in the ready state receives    *)
(* short header packets sealed with the keys of several generations, with  *)
(* either key phase bit, while time passes.                                *)
(***************************************************************************)
MaxRotPackets == 3

MaxRotTime == 2

RotSegments ==
    {[BaseSeg EXCEPT !.form = "short", !.fill = TRUE, !.sealed = k, !.pn = n,
                     !.key_phase = kp] :
        k \in {NoKey, 0, 1}, n \in 0..MaxPn, kp \in {0, 1}}
    \cup {[BaseSeg EXCEPT !.form = "short", !.fill = TRUE, !.sealed = NoKey, !.pn = 1,
                          !.key_phase = kp, !.tail = LocalCid(1)] : kp \in {0, 1}}
    \cup {[BaseSeg EXCEPT !.form = "short", !.fill = TRUE, !.sealed = 2, !.pn = n,
                          !.key_phase = 0] : n \in 0..MaxPn}

ReadyClient == ClientCnx("ready", {0, 2, 3}, 3, TRUE)

(* no key update yet; one that the TLS stack cannot compute; one already made, with
   the old key in place or already discarded *)
RotEndpoints ==
    {ReadyClient,
     [ReadyClient EXCEPT !.can_rotate = FALSE],
     [ReadyClient EXCEPT !.key_cur = 1, !.key_old = 0, !.key_phase_dec = 1,
                         !.key_enc = 1, !.crypto_rotation_sequence = 1,
                         !.crypto_rotation_time_guard = 1, !.sack["application"] = {0, 1}],
     [ReadyClient EXCEPT !.key_cur = 1, !.key_old = NoKey, !.key_phase_dec = 1,
                         !.key_enc = 1, !.crypto_rotation_sequence = 1,
                         !.crypto_rotation_time_guard = 0, !.sack["application"] = {0, 1}]}

InitRot ==
    /\ pnx = PnIdle
    /\ path_x = NoPath
    /\ quic = DefaultQuic
    /\ \E c \in RotEndpoints : cnxs = <<c>>
    /\ sp_queue = <<>>
    /\ rx = RxIdle
    /\ last = NoLast

(* a datagram that holds one short header packet arrives from the peer *)
ReceiveShortHeaderPacket ==
    /\ ~rx.active
    /\ rx.packets < MaxRotPackets
    /\ \E t \in rx.current_time..MaxRotTime, seg \in RotSegments :
         LoopIteration([RxIdle EXCEPT !.active = TRUE,
                                      !.packet_length = PICOQUIC_ENFORCED_INITIAL_MTU,
                                      !.addr_from = 1, !.current_time = t,
                                      !.packets = rx.packets + 1], seg)

NextRot == ReceiveShortHeaderPacket

SpecRot == InitRot /\ [][NextRot]_vars

(***************************************************************************)
(* The packet handlers in every connection state: one connection, client   *)
(* or server, in any state of its life, receives datagrams that hold one   *)
(* packet each: Retry, Version Negotiation, 0-RTT and 1-RTT packets.       *)
(* Between two datagrams a client may send its Initial packet again.       *)
(***************************************************************************)
MaxHsPackets == 2

(* a client in each of its states, with the keys it has in that state, with and
   without callback function; a server in each state that follows the handshake
   messages of the client, before and after the first 1-RTT packet *)
HsEndpoints ==
    {ClientCnx(st,
               IF StateRank(st) <= StateRank("client_handshake_start") THEN {0}
               ELSE IF st = "client_handshake_progress" THEN {0, 2} ELSE {0, 2, 3},
               IF StateRank(st) <= StateRank("client_init_resent") THEN NullCid ELSE 3, cb) :
        st \in {"client_init", "client_init_sent", "client_init_resent",
                "client_handshake_start", "client_handshake_progress",
                "client_almost_ready", "ready", "disconnecting", "closing_received",
                "closing", "draining", "disconnected", "handshake_failure"},
        cb \in BOOLEAN}
    \cup {ServerCnx(1, st, TRUE) :
            st \in {"server_false_start", "server_almost_ready", "ready", "disconnecting",
                    "closing_received", "closing", "draining", "disconnected",
                    "handshake_failure"}}
    \cup {[ServerCnx(1, "ready", TRUE) EXCEPT !.is_1rtt_received = TRUE,
                                             !.sack["application"] = {0, 1}]}

(* Retry, Version Negotiation, 0-RTT and 1-RTT packets *)
HsSegments ==
    {[BaseSeg EXCEPT !.tbits = "retry", !.vn = v, !.odcid = o, !.scid = 3, !.token = k,
                     !.fill = TRUE] :
        v \in {"ok", "other"}, o \in {NullCid, 2, 3}, k \in {"valid", "none"}}
    \cup {[BaseSeg EXCEPT !.vn = "zero", !.dcid = d, !.fill = TRUE] :
            d \in {NullCid, 2, LocalCid(1)}}
    \cup {[BaseSeg EXCEPT !.tbits = "0rtt", !.vn = v, !.dcid = d, !.scid = sc, !.sealed = k,
                          !.pn = n, !.frames = f, !.fill = TRUE] :
            v \in {"ok", "other"}, d \in {2, LocalCid(1)}, sc \in {2, 3}, k \in {NoKey, 0},
            n \in {1, 2}, f \in {"data", "bad"}}
    \cup {[BaseSeg EXCEPT !.form = "short", !.fill = TRUE, !.sealed = k, !.pn = n,
                          !.frames = f] :
            k \in {NoKey, 0}, n \in {1, 2}, f \in {"data", "ack", "close", "bad"}}

InitHs ==
    /\ pnx = PnIdle
    /\ path_x = NoPath
    /\ quic = DefaultQuic
    /\ \E c \in HsEndpoints : cnxs = <<c>>
    /\ sp_queue = <<>>
    /\ rx = RxIdle
    /\ last = NoLast

(* a datagram that holds one packet arrives; the datagrams are full-size ones, and a
   Version Negotiation packet also comes with an empty list of versions, the
   datagram ending with its header *)
ReceiveHsPacket ==
    /\ ~rx.active
    /\ rx.packets < MaxHsPackets
    /\ \E addr \in Addrs, seg \in HsSegments :
         \E packet_length \in IF seg.vn = "zero"
                               THEN {LongBaseOffset(seg), PICOQUIC_ENFORCED_INITIAL_MTU}
                               ELSE {PICOQUIC_ENFORCED_INITIAL_MTU} :
             LoopIteration([RxIdle EXCEPT !.active = TRUE, !.packet_length = packet_length,
                                          !.addr_from = addr,
                                          !.current_time = rx.current_time,
                                          !.packets = rx.packets + 1], seg)

(* the client sends its Initial packet: for the first time, after a Retry, or again
   when the retransmission timer fires *)
picoquic_prepare_packet_client_init ==
    /\ ~rx.active
    /\ 1 \in DOMAIN cnxs
    /\ cnxs[1].cnx_state \in {"client_init", "client_init_sent"}
    /\ cnxs' = [cnxs EXCEPT ![1].cnx_state = IF @ = "client_init" THEN "client_init_sent"
                                             ELSE "client_init_resent",
                            ![1].retransmit_oldest = rx.current_time]
    /\ last' = NoLast
    /\ UNCHANGED <<pnx, path_x, quic, sp_queue, rx>>

NextHs ==
    \/ ReceiveHsPacket
    \/ picoquic_prepare_packet_client_init

SpecHs == InitHs /\ [][NextHs]_vars

(***************************************************************************)
(* Stateless responses: an endpoint with no connection, or with one ready  *)
(* server connection, receives a datagram of one or two segments for       *)
(* connection IDs and versions it does not know, while the random number   *)
(* generator returns values at both ends of its range.                     *)
(***************************************************************************)
MaxSpPackets == 1

SpRandoms ==
    {[r64 |-> r, grease |-> g] :
        r \in {0, 31, 255, 32 * (PICOQUIC_ENFORCED_INITIAL_MTU - PICOQUIC_RESET_SECRET_SIZE
                                 - PICOQUIC_RESET_PACKET_PAD_SIZE - 2) + 31},
        g \in {<<"grease1", "grease2">>, <<"grease2", "grease1">>}}

SpSegments ==
    {[BaseSeg EXCEPT !.form = "short", !.fill = TRUE, !.dcid = d, !.sealed = k, !.tail = t,
                     !.pn = 1] :
        d \in {2, LocalCid(1), LocalCid(2)}, k \in {NoKey, 0}, t \in {0, LocalCid(1)}}
    \cup {[BaseSeg EXCEPT !.vn = v, !.tbits = t, !.dcid = d, !.scid = sc] :
            v \in {"bad", "grease1"}, t \in {"initial", "handshake"}, d \in {NullCid, 2},
            sc \in {NullCid, 3}}
    \cup {[BaseSeg EXCEPT !.vn = v, !.tbits = "handshake", !.dcid = 2, !.pn = 1] :
            v \in {"ok", "other"}}
    \cup {[BaseSeg EXCEPT !.tbits = "initial", !.dcid = d, !.frames = "tls", !.pn = 1] :
            d \in {2, LocalCid(1)}}
    \cup {[BaseSeg EXCEPT !.vn = "zero", !.dcid = 2]}

InitSp ==
    /\ pnx = PnIdle
    /\ path_x = NoPath
    /\ quic = DefaultQuic
    /\ cnxs \in {<<>>, <<ServerCnx(1, "ready", TRUE)>>}
    /\ sp_queue = <<>>
    /\ rx = RxIdle
    /\ last = NoLast

(* a datagram arrives: its first segment *)
ReceiveSpPacket ==
    /\ ~rx.active
    /\ rx.packets < MaxSpPackets
    /\ Len(sp_queue) < MaxQueue
    /\ \E addr \in Addrs, seg \in SpSegments, random \in SpRandoms,
          packet_length \in {8, PICOQUIC_RESET_PACKET_MIN_SIZE,
                             PICOQUIC_RESET_PACKET_MIN_SIZE + 1,
                             PICOQUIC_RESET_PACKET_MIN_SIZE + 2,
                             PICOQUIC_ENFORCED_INITIAL_MTU - 1,
                             PICOQUIC_ENFORCED_INITIAL_MTU} :
         LoopIteration([RxIdle EXCEPT !.active = TRUE, !.packet_length = packet_length,
                                      !.addr_from = addr, !.current_time = rx.current_time,
                                      !.packets = rx.packets + 1, !.random = random], seg)

(* the second segment of the datagram, which extends to its end *)
NextSpSegment ==
    /\ rx.active
    /\ \E seg \in SpSegments, random \in SpRandoms :
         LoopIteration([rx EXCEPT !.random = random], [seg EXCEPT !.fill = TRUE])

NextSp ==
    \/ ReceiveSpPacket
    \/ NextSpSegment
    \/ picoquic_dequeue_stateless_packet

SpecSp == InitSp /\ [][NextSp]_vars

(***************************************************************************)
(* The congestion controller under a sequence of notifications.  The       *)
(* sender is not part of the model: the notifications, the times, and the  *)
(* packet numbers sent and acknowledged between them are inputs.           *)
(***************************************************************************)
MaxNotifications == 3

(* send_mtu of the path *)
CcMtu == 1280

(* a path whose controller was just made by picoquic_cubic_init; the first is the
   one an endpoint starts with, the others have packets in flight *)
NewPath(smoothed_rtt, send_sequence) ==
    picoquic_cubic_init(
        [cwin |-> 0, smoothed_rtt |-> smoothed_rtt, send_mtu |-> CcMtu,
         send_sequence |-> send_sequence, highest_acknowledged |-> 0,
         congestion_alg_state |-> "null", notified |-> 0, current_time |-> 0,
         note |-> [notification |-> "none"], before_recovery |-> [W_max |-> 0, cwin |-> 0]])

(* the RTT filter after samples of 40 ms, then enough samples of 60 ms to fill the
   window and be counted in excess six times *)
RttFilterRising ==
    [RttFilterZero EXCEPT !.samples = [i \in 0..(PICOQUIC_MIN_MAX_RTT_SCOPE - 1) |-> 60000],
                          !.is_init = TRUE, !.sample_min = 60000, !.sample_max = 60000,
                          !.rtt_filtered_min = 40000,
                          !.nb_rtt_excess = PICOQUIC_MIN_MAX_RTT_SCOPE - 1]

(* picoquic_cubic_enter_recovery on path p; before_recovery keeps, for the
   properties, the W_max and the cwin that the path had before *)
EnterRecovery(p, notification, current_time) ==
    [picoquic_cubic_enter_recovery(p, notification, current_time)
         EXCEPT !.before_recovery = [W_max |-> p.congestion_alg_state.W_max,
                                     cwin |-> p.cwin]]

(* the controllers the check starts from: new ones, one whose RTT samples are
   rising, and the state picoquic_cubic_alg_recovery, which picoquic_cubic_notify
   handles, as it is after a loss or a timeout at time 0 *)
CubicPaths ==
    UNION {{NewPath(srtt, 0), NewPath(srtt, 2),
            [NewPath(srtt, 0) EXCEPT !.congestion_alg_state.rtt_filter = RttFilterRising],
            [EnterRecovery(NewPath(srtt, 2), "repeat", 0)
                 EXCEPT !.congestion_alg_state.alg_state = "recovery"],
            [EnterRecovery(NewPath(srtt, 2), "timeout", 0)
                 EXCEPT !.congestion_alg_state.alg_state = "recovery"]} :
           srtt \in {50000, 150000}}

InitCubic ==
    /\ pnx = PnIdle
    /\ path_x \in CubicPaths
    /\ quic = DefaultQuic
    /\ cnxs = <<>>
    /\ sp_queue = <<>>
    /\ rx = RxIdle
    /\ last = NoLast

(* one call of picoquic_cubic_notify; since the call before, one packet was sent
   and the last packet sent before was acknowledged or not.  A spurious repeat is
   notified only for a loss that was notified before. *)
Notify ==
    /\ path_x.notified < MaxNotifications
    /\ \E note \in [notification : {"ecn_ec", "repeat", "timeout", "spurious_repeat"},
                    rtt_measurement : {0}, nb_bytes_acknowledged : {0}]
                   \cup [notification : {"acknowledgement"}, rtt_measurement : {0},
                         nb_bytes_acknowledged : {1500, 9000}]
                   \cup [notification : {"rtt_measurement"},
                         rtt_measurement : {40000, 60000}, nb_bytes_acknowledged : {0}],
          delay \in {2000, 200000}, acked \in BOOLEAN :
         /\ note.notification = "spurious_repeat" =>
                path_x.congestion_alg_state.W_last_max # HugeWindow
         /\ \E p \in {[path_x EXCEPT !.send_sequence = @ + 1,
                                     !.highest_acknowledged =
                                         IF acked THEN path_x.send_sequence ELSE @]} :
                path_x' =
                    [picoquic_cubic_notify(p, note.notification, note.rtt_measurement,
                                           note.nb_bytes_acknowledged,
                                           path_x.current_time + delay)
                     EXCEPT !.notified = @ + 1, !.current_time = @ + delay, !.note = note,
                            !.before_recovery =
                                IF /\ note.notification \in {"ecn_ec", "repeat", "timeout"}
                                   /\ LossIsNew(p, path_x.current_time + delay)
                                THEN [W_max |-> p.congestion_alg_state.W_max,
                                      cwin |-> p.cwin]
                                ELSE @]
    /\ UNCHANGED <<pnx, quic, cnxs, sp_queue, rx, last>>

NextCubic == Notify

SpecCubic == InitCubic /\ [][NextCubic]_vars

(***************************************************************************)
(* picoquic_cubic_notify on a controller that picoquic_cubic_init has just *)
(* made, under the notifications of SpecCubic.                             *)
(***************************************************************************)
InitCubicNew ==
    /\ pnx = PnIdle
    /\ path_x \in {NewPath(srtt, send_sequence) : srtt \in {50000, 150000},
                                                  send_sequence \in {0, 2}}
    /\ quic = DefaultQuic
    /\ cnxs = <<>>
    /\ sp_queue = <<>>
    /\ rx = RxIdle
    /\ last = NoLast

NextCubicNew == Notify

SpecCubicNew == InitCubicNew /\ [][NextCubicNew]_vars

(***************************************************************************)
(* The round trip of a stateless reset.  The peer of the endpoint has lost *)
(* its connection: picoquic_process_unexpected_cnxid, run by the peer on a *)
(* 1-RTT packet of the endpoint, builds the reset, which is in flight in   *)
(* sp_queue until the endpoint receives it.  The endpoint issues           *)
(* connection IDs of 8 bytes or of none, and has one connection in state   *)
(* ready with the peer at address 1, whose path[0].reset_secret is the     *)
(* secret of connection ID 3.                                              *)
(***************************************************************************)
ZeroCidQuic == [DefaultQuic EXCEPT !.local_cnxid_length = 0]

ResetReceiver(q) ==
    [ClientCnx("ready", {0, 2, 3}, 3, TRUE) EXCEPT
        !.local_cnxid = IF q.local_cnxid_length = 0 THEN NullCid ELSE LocalCid(1),
        !.reset_secret = picoquic_create_cnxid_reset_secret(3)]

(* the lengths of the 1-RTT packet that the peer answers *)
ResetTriggerLengths ==
    {PICOQUIC_RESET_PACKET_MIN_SIZE, PICOQUIC_RESET_PACKET_MIN_SIZE + 1,
     PICOQUIC_RESET_PACKET_MIN_SIZE + 2, 64, 100, 500, PICOQUIC_ENFORCED_INITIAL_MTU}

(* the bytes of a stateless reset as the receiver reads them: the header form is
   bit 0x80 of the first byte, the fixed bit ("QUIC bit") is bit 0x40 and the key
   phase is bit 0x04; the bytes after the first are random, d is what they hold
   where the receiver reads a connection ID; no key opens the packet, and its last
   16 bytes are the secret *)
SegmentOfReset(sp, d) ==
    [BaseSeg EXCEPT !.form = IF BitAnd(sp.bytes.first_byte, 128) = 128
                             THEN "long" ELSE "short",
                    !.quic_bit = (BitAnd(sp.bytes.first_byte, 64) = 64),
                    !.key_phase = BitAnd(sp.bytes.first_byte, 4) \div 4,
                    !.dcid = d, !.scid = NullCid, !.fill = TRUE, !.sealed = NoKey,
                    !.tail = sp.bytes.secret]

InitReset ==
    /\ pnx = PnIdle
    /\ path_x = NoPath
    /\ quic \in {DefaultQuic, ZeroCidQuic}
    /\ cnxs = <<ResetReceiver(quic)>>
    /\ sp_queue = <<>>
    /\ rx = RxIdle
    /\ last = NoLast

(* the peer receives a 1-RTT packet of `length` bytes with a connection ID for which
   it has no context, and answers it to the address of the endpoint *)
BuildReset ==
    /\ ~rx.active
    /\ rx.packets = 0
    /\ sp_queue = <<>>
    /\ \E length \in ResetTriggerLengths, random \in SpRandoms, cid \in PeerCids :
         sp_queue' = picoquic_process_unexpected_cnxid(
                         length, AddrTo,
                         [PhZero EXCEPT !.ptype = "1rtt_protected", !.dest_cnx_id = cid],
                         random)
    /\ UNCHANGED <<pnx, path_x, quic, cnxs, rx, last>>

(* the reset arrives at the endpoint, from the address of the peer or from another *)
ReceiveReset ==
    /\ ~rx.active
    /\ rx.packets < MaxSpPackets
    /\ sp_queue # <<>>
    /\ \E addr \in Addrs, d \in {2, LocalCid(1)} :
         LoopIterationFrom(Tail(sp_queue),
                           [RxIdle EXCEPT !.active = TRUE,
                                          !.packet_length = StatelessResetLength(Head(sp_queue)),
                                          !.addr_from = addr,
                                          !.current_time = rx.current_time,
                                          !.packets = rx.packets + 1],
                           SegmentOfReset(Head(sp_queue), d))

NextReset ==
    \/ BuildReset
    \/ ReceiveReset

SpecReset == InitReset /\ [][NextReset]_vars

(***************************************************************************)
(* picoquic_hystart_test under a sequence of RTT samples, from the filter  *)
(* that picoquic_cubic_init leaves.  A sample is 40 ms, or 1 ms more than  *)
(* the sample before (50 ms or 51 ms after a sample of 40 ms); the calls   *)
(* are 2 ms apart, but for one that may come 1 ms after the call before.   *)
(* Two counters describe the samples fed: rising is the number of          *)
(* successive samples up to the last, each accepted, above the one before  *)
(* and at least 1.25 times rtt_filtered_min; run counts the same from a    *)
(* window that held only samples equal to rtt_filtered_min with no excess  *)
(* counted, for samples above 1.25 times rtt_filtered_min.                 *)
(***************************************************************************)
MaxHyCalls == 21

FlatWindow(rtt_track) ==
    /\ rtt_track.is_init
    /\ rtt_track.nb_rtt_excess = 0
    /\ \A i \in DOMAIN rtt_track.samples : rtt_track.samples[i] = rtt_track.rtt_filtered_min

InitHy ==
    /\ pnx = PnIdle
    /\ path_x = [notified |-> 0, rtt_track |-> RttFilterZero, ret |-> 0, current_time |-> 0,
                 rtt_measurement |-> 0, accepted |-> FALSE, early |-> FALSE,
                 rising |-> 0, run |-> 0]
    /\ quic = DefaultQuic
    /\ cnxs = <<>>
    /\ sp_queue = <<>>
    /\ rx = RxIdle
    /\ last = NoLast

HystartSample ==
    /\ path_x.notified < MaxHyCalls
    /\ \E rtt \in {40000, IF path_x.rtt_measurement < 50000 THEN 50000
                           ELSE path_x.rtt_measurement + 1000,
                    IF path_x.rtt_measurement < 50000 THEN 51000
                    ELSE path_x.rtt_measurement + 1000},
          delay \in {2000} \cup (IF path_x.early THEN {} ELSE {1000}) :
         \E h \in {picoquic_hystart_test(path_x.rtt_track, rtt, path_x.current_time + delay)} :
             LET accepted == path_x.current_time + delay
                                 > path_x.rtt_track.last_rtt_sample_time + 1000
                 higher == rtt > path_x.rtt_measurement
                 filtered_min == path_x.rtt_track.rtt_filtered_min
             IN  path_x' = [notified |-> path_x.notified + 1, rtt_track |-> h.rtt_track,
                            ret |-> h.ret, current_time |-> path_x.current_time + delay,
                            rtt_measurement |-> rtt, accepted |-> accepted,
                            early |-> path_x.early \/ delay = 1000,
                            rising |-> IF ~(accepted /\ rtt * 4 >= filtered_min * 5) THEN 0
                                       ELSE IF path_x.rising > 0 /\ higher
                                       THEN path_x.rising + 1 ELSE 1,
                            run |-> IF ~(accepted /\ rtt * 4 > filtered_min * 5) THEN 0
                                    ELSE IF FlatWindow(path_x.rtt_track) THEN 1
                                    ELSE IF path_x.run > 0 /\ higher
                                    THEN path_x.run + 1 ELSE 0]
    /\ UNCHANGED <<pnx, quic, cnxs, sp_queue, rx, last>>

NextHy == HystartSample

SpecHy == InitHy /\ [][NextHy]_vars


(***************************************************************************)
(* The codec helpers, each called on inputs drawn from bounded sets; the   *)
(* call and what it returned are kept in `last`.                           *)
(***************************************************************************)
MaxCmpLen == 3

CmpBytes == {0, 1, 128, 255}

CmpStrings == [1..MaxCmpLen -> CmpBytes]

BufLen == 12

(* values on both sides of every boundary of the four forms *)
VarintValues ==
    {U64Of(0), U64Of(37), U64Of(63), U64Of(64), U64Of(300), U64Of(16383), U64Of(16384),
     U64Of(70000), U64Of(1073741823), U64Of(1073741824),
     U64Bytes(1, 2, 3, 4, 5, 6, 7, 8), U64Bytes(255, 255, 255, 255, 255, 255, 255, 63),
     U64Bytes(0, 0, 0, 0, 0, 0, 0, 64), U64Bytes(9, 8, 7, 6, 5, 4, 3, 130),
     U64Not(U64Of(0))}

(* the calls, before they are made *)
UtilCalls ==
    [index : {0}, op : {"memcmp"}, done : {FALSE}, x : CmpStrings, y : CmpStrings,
     l : 0..MaxCmpLen, ret : {0}, read : {0}]
    \cup
    {[index |-> 0, op |-> "varint_encode", done |-> FALSE, n64 |-> n64,
      before |-> [i \in 0..(BufLen - 1) |-> fill], bytes |-> bytes,
      bytes_max |-> bytes + room, ret |-> NULL, buf |-> [i \in 0..(BufLen - 1) |-> fill]] :
        n64 \in VarintValues, bytes \in {0, 3}, room \in 0..9, fill \in {0, 255}}

(***************************************************************************)
(* picoquic_parse_hexa and picoquic_parse_connection_id_hexa.  Characters  *)
(* are their ASCII codes.  hex_input is the memory from the pointer on:    *)
(* input_length characters and the one after them; bin_output is the       *)
(* memory from the pointer on, which holds more than output_max bytes.     *)
(* read is the number of characters of hex_input that were read and        *)
(* written the number of bytes of bin_output that were written.            *)
(***************************************************************************)
picoquic_parse_hexa_digit(x) ==
    IF x >= 48 /\ x <= 57 THEN x - 48
    ELSE IF x >= 65 /\ x <= 70 THEN x - 65 + 10
    ELSE IF x >= 97 /\ x <= 102 THEN x - 97 + 10
    ELSE -1

(* lines 230-241: the while loop *)
RECURSIVE ParseHexaLoop(_, _, _)
ParseHexaLoop(hex_input, input_length, st) ==
    IF st.offset >= input_length THEN st
    ELSE \* both characters are read before the test
         LET a == picoquic_parse_hexa_digit(hex_input[st.offset])
             b == picoquic_parse_hexa_digit(hex_input[st.offset + 1])
             rd == [st EXCEPT !.offset = @ + 2, !.read = st.offset + 2]
         IN  IF a < 0 \/ b < 0
             THEN [rd EXCEPT !.ret = 0]
             ELSE ParseHexaLoop(hex_input, input_length,
                                [rd EXCEPT !.out[st.ret] = BitOr((a * 16) % 256, b),
                                           !.ret = @ + 1,
                                           !.written = IF st.ret + 1 > @ THEN st.ret + 1 ELSE @])

picoquic_parse_hexa(hex_input, input_length, bin_output, output_max) ==
    IF input_length > 0 \/ BitAnd(input_length, 1) = 0 \/ 2 * output_max >= input_length
    THEN ParseHexaLoop(hex_input, input_length,
                       [offset |-> 0, ret |-> 0, out |-> bin_output, read |-> 0,
                        written |-> 0])
    ELSE [offset |-> 0, ret |-> 0, out |-> bin_output, read |-> 0, written |-> 0]

(* the size of the id array of picoquic_connection_id_t *)
PICOQUIC_CONNECTION_ID_MAX_SIZE == 20

(* the bytes of memory from cnx_id->id on that the model holds *)
CidMem == 24

(* lines 247-257: the structure is zeroed, parsed into with output_max 18, and zeroed
   again when nothing was parsed; the bytes after the id array are left as the parser
   leaves them *)
picoquic_parse_connection_id_hexa(hex_input, input_length) ==
    TheOne({[id_len |-> r.ret % 256,
             id |-> [i \in 0..(CidMem - 1) |->
                        IF r.ret % 256 = 0 /\ i < PICOQUIC_CONNECTION_ID_MAX_SIZE
                        THEN 0 ELSE r.out[i]],
             read |-> r.read, written |-> r.written]
            : r \in {picoquic_parse_hexa(hex_input, input_length,
                                         [i \in 0..(CidMem - 1) |-> 0], 18)}})

(* NUL, '1', 'F', 'a', 'g' *)
HexChars == {0, 49, 70, 97, 103}

MaxHexLen == 3

(* the bytes of memory from bin_output on that the model holds *)
HexOutMem == 3

(* the lengths of the text of a connection ID: on both sides of 2 * 18 and of 2 * 20 *)
CidTextLengths == {0, 1, 2, 16, 35, 36, 37, 38, 40, 41, 42, 44}

HexaCalls ==
    UNION {[index : {0}, op : {"parse_hexa"}, done : {FALSE},
            hex_input : [0..input_length -> HexChars], input_length : {input_length},
            before : {[i \in 0..(HexOutMem - 1) |-> 255]}, output_max : 0..2,
            ret : {0}, out : {[i \in 0..(HexOutMem - 1) |-> 255]}, read : {0},
            written : {0}] : input_length \in 0..MaxHexLen}
    \cup
    {[index |-> 0, op |-> "parse_connection_id_hexa", done |-> FALSE,
      hex_input |-> [i \in 0..input_length |->
                        IF i = input_length THEN after ELSE IF i = bad THEN 103 ELSE 97],
      input_length |-> input_length, ret |-> 0, id |-> [i \in 0..(CidMem - 1) |-> 0],
      read |-> 0, written |-> 0] :
        input_length \in CidTextLengths, after \in {0, 97}, bad \in {-1, 0, 39}}

ParseHexa ==
    /\ last.op = "parse_hexa" /\ ~last.done
    /\ \E r \in {picoquic_parse_hexa(last.hex_input, last.input_length, last.before,
                                     last.output_max)} :
         last' = [last EXCEPT !.done = TRUE, !.ret = r.ret, !.out = r.out,
                              !.read = r.read, !.written = r.written]
    /\ UNCHANGED <<pnx, path_x, quic, cnxs, sp_queue, rx>>

ParseConnectionIdHexa ==
    /\ last.op = "parse_connection_id_hexa" /\ ~last.done
    /\ \E r \in {picoquic_parse_connection_id_hexa(last.hex_input, last.input_length)} :
         last' = [last EXCEPT !.done = TRUE, !.ret = r.id_len, !.id = r.id,
                              !.read = r.read, !.written = r.written]
    /\ UNCHANGED <<pnx, path_x, quic, cnxs, sp_queue, rx>>

InitUtil ==
    /\ pnx = PnIdle
    /\ path_x = NoPath
    /\ quic = DefaultQuic
    /\ cnxs = <<>>
    /\ sp_queue = <<>>
    /\ rx = RxIdle
    /\ last \in UtilCalls \cup HexaCalls

ConstantTimeMemcmp ==
    /\ last.op = "memcmp" /\ ~last.done
    /\ \E r \in {picoquic_constant_time_memcmp(last.x, last.y, last.l)} :
         last' = [last EXCEPT !.done = TRUE, !.ret = r.ret, !.read = r.read]
    /\ UNCHANGED <<pnx, path_x, quic, cnxs, sp_queue, rx>>

VarintEncode ==
    /\ last.op = "varint_encode" /\ ~last.done
    /\ \E r \in {picoquic_frames_varint_encode(last.before, last.bytes, last.bytes_max,
                                               last.n64)} :
         last' = [last EXCEPT !.done = TRUE, !.ret = r.bytes, !.buf = r.buf]
    /\ UNCHANGED <<pnx, path_x, quic, cnxs, sp_queue, rx>>

NextUtil == ConstantTimeMemcmp \/ VarintEncode \/ ParseHexa \/ ParseConnectionIdHexa

SpecUtil == InitUtil /\ [][NextUtil]_vars


(***************************************************************************)
(* picoquic_parse_header_and_decrypt on its own: one call on a segment of  *)
(* any length, complete or cut short, at an endpoint with no connection    *)
(* or with one.  The call and what it returned are kept in `last`.         *)
(***************************************************************************)
MaxParseLen == 64

ParseLengths == 1..MaxParseLen \cup {PICOQUIC_ENFORCED_INITIAL_MTU}

(* a client that uses a zero-length connection ID is found by address only *)
ParseEndpoints ==
    {<<>>}
    \cup {<<c>> : c \in {ClientCnx("client_init_sent", {0}, NullCid, TRUE),
                         ClientCnx("ready", {0, 2, 3}, 3, TRUE),
                         [ClientCnx("ready", {0, 2, 3}, 3, TRUE) EXCEPT
                             !.local_cnxid = NullCid],
                         ServerCnx(1, "server_false_start", TRUE),
                         ServerCnx(1, "ready", TRUE)}}

ParseSegments ==
    Segments
    \cup {[BaseSeg EXCEPT !.tbits = "initial", !.dcid = 2, !.token = "valid", !.sealed = k] :
            k \in {NoKey, 0}}
    \cup {[BaseSeg EXCEPT !.tbits = t, !.dcid = d, !.rsv = TRUE, !.pn = 1, !.pn_l = l] :
            t \in {"initial", "0rtt", "handshake"}, d \in {2, LocalCid(1)}, l \in {1, 4}}
    \cup {[BaseSeg EXCEPT !.form = "short", !.rsv = r, !.pn = 1, !.pn_l = l, !.frames = f,
                          !.fill = TRUE, !.key_phase = k] :
            r \in BOOLEAN, l \in {1, 2, 4}, f \in {"empty", "tiny", "data"}, k \in {0, 1}}

InitParse ==
    /\ pnx = PnIdle
    /\ path_x = NoPath
    /\ quic = DefaultQuic
    /\ cnxs \in ParseEndpoints
    /\ sp_queue = <<>>
    /\ rx = RxIdle
    /\ \E seg \in ParseSegments, length \in ParseLengths, addr \in Addrs :
         /\ \A t \in DOMAIN cnxs : cnxs[t].local_cnxid = NullCid => seg.form = "long"
         /\ last = [index |-> 0, op |-> "parse", done |-> FALSE, seg |-> seg,
                    length |-> length,
                    packet_length |-> IF seg.fill THEN length
                                      ELSE PICOQUIC_ENFORCED_INITIAL_MTU,
                    addr_from |-> addr, current_time |-> 0, decrypt |-> "none",
                    ph |-> PhZero, cnx |-> NoCnx, key |-> "none", created |-> FALSE]

ParseHeaderAndDecrypt ==
    /\ last.op = "parse" /\ ~last.done
    /\ \E d \in {picoquic_parse_header_and_decrypt(quic, cnxs, last.seg, last.length,
                                                   last.packet_length, last.addr_from,
                                                   last.current_time)} :
         /\ cnxs' = d.reg
         /\ last' = [last EXCEPT !.done = TRUE, !.decrypt = d.ret, !.ph = d.ph,
                                 !.cnx = d.cnx, !.key = d.key,
                                 !.created = d.new_ctx_created]
    /\ UNCHANGED <<pnx, path_x, quic, sp_queue, rx>>

NextParse == ParseHeaderAndDecrypt

SpecParse == InitParse /\ [][NextParse]_vars


(***************************************************************************)
(* picoquic_find_incoming_path on its own: a 1-RTT packet that was         *)
(* decrypted, hence not a duplicate, arrives at a ready connection from    *)
(* the address of the path, from the alt address or from a third one.      *)
(***************************************************************************)
MaxPathTime == 2

PathAddrs == 1..3

(* the path has no alt address, or one under validation *)
PathEndpoints ==
    {[c EXCEPT !.alt_peer_addr = alt[1], !.alt_challenge_required = alt[2],
               !.alt_challenge_timeout = alt[3], !.challenge_required = ch,
               !.sack["application"] = received] :
        c \in {ClientCnx("ready", {0, 2, 3}, 3, TRUE), ServerCnx(1, "ready", TRUE)},
        alt \in {<<0, FALSE, 0>>} \cup ({2} \X BOOLEAN \X (0..MaxPathTime)),
        ch \in BOOLEAN,
        received \in {{}, {0}, {0, 1}, {0, 2}}}

InitPath ==
    /\ pnx = PnIdle
    /\ path_x = NoPath
    /\ quic = DefaultQuic
    /\ \E c \in PathEndpoints : cnxs = <<c>>
    /\ sp_queue = <<>>
    /\ rx = RxIdle
    /\ \E pn64 \in 0..MaxPn, addr \in PathAddrs, current_time \in 0..MaxPathTime,
          dcid \in {LocalCid(1), LocalCid(2)} :
         /\ ~picoquic_is_pn_already_received(cnxs[1], "application", pn64)
         /\ last = [index |-> 0, op |-> "find_path", done |-> FALSE,
                    ph |-> [PhZero EXCEPT !.ptype = "1rtt_protected", !.epoch = 3,
                                          !.dest_cnx_id = dcid, !.pn64 = pn64, !.cnx = 1],
                    addr_from |-> addr, current_time |-> current_time, ret |-> "none",
                    before |-> cnxs[1]]

FindIncomingPath ==
    /\ last.op = "find_path" /\ ~last.done
    /\ \E r \in {picoquic_find_incoming_path(cnxs[1], last.ph, last.addr_from,
                                             last.current_time)} :
         /\ cnxs' = <<r.c>>
         /\ last' = [last EXCEPT !.done = TRUE, !.ret = r.ret]
    /\ UNCHANGED <<pnx, path_x, quic, sp_queue, rx>>

NextPath == FindIncomingPath

SpecPath == InitPath /\ [][NextPath]_vars


(***************************************************************************)
(* C1: the reconstructed pn64 carries the truncated pn in its low 8*L bits *)
(* and lies within half a window of expected = highest + 1, except when    *)
(* the closer candidate would be below zero, and then the non-wrapped      *)
(* candidate (expected & mask) | pn is returned.                           *)
(***************************************************************************)
U64AbsDiff(a, b) == IF U64Lt(a, b) THEN U64Sub(b, a) ELSE U64Sub(a, b)

PnCandidate == U64Or(U64And(U64Add(pnx.highest, U64Of(1)), PnMask(pnx.pn_l)), pnx.pn)

PnWithinHalfWindow ==
    ~U64Lt(PnHalfWindow(pnx.pn_l),
           U64AbsDiff(pnx.pn64, U64Add(pnx.highest, U64Of(1))))

C1_PnClosestToExpected ==
    pnx.phase = "done" =>
        /\ U64And(pnx.pn64, U64Not(PnMask(pnx.pn_l))) = pnx.pn
        /\ \/ PnWithinHalfWindow
           \/ /\ U64Lt(PnCandidate, PnWindow(pnx.pn_l))
              /\ pnx.pn64 = PnCandidate

(* a 4-byte packet number far above expected in the first window: kept, not wrapped *)
C1_Witness ==
    /\ pnx.phase = "done"
    /\ pnx.pn_l = 4
    /\ ~PnWithinHalfWindow
    /\ pnx.pn64 = PnCandidate

(***************************************************************************)
(* The claims below are about one iteration of the loop of                 *)
(* picoquic_incoming_packet: last describes the iteration just made, cnxs  *)
(* is the registry after it, and in a step that changes rx the unprimed    *)
(* cnxs is the registry before it.                                         *)
(***************************************************************************)
SackOf(reg, s, pc) == IF s \in DOMAIN reg THEN reg[s].sack[pc] ELSE {}

DecryptFailed(l) == l.decrypt \in {"AEAD_CHECK", "STATELESS_RESET"}

(***************************************************************************)
(* C2: a segment whose destination connection ID differs from that of the  *)
(* first segment of its datagram ends with CNXID_SEGMENT, is not           *)
(* dispatched to a per-type handler, and no later segment of the datagram  *)
(* is processed.                                                           *)
(***************************************************************************)
C2_DifferentDcidEndsDatagram ==
    (last.index > 1 /\ last.seg.dcid # last.first_dcid) =>
        /\ last.outcome = "CNXID_SEGMENT"
        /\ last.handler = "none"
        /\ ~last.more

(***************************************************************************)
(* C3: every benign drop outcome makes picoquic_incoming_segment return a  *)
(* nonzero value, which ends the loop over the segments of the datagram.   *)
(***************************************************************************)
C3_BenignDropsReturnNonzero ==
    (last.index > 0 /\ last.outcome \in BenignDrops) => (last.ret # 0 /\ ~last.more)

(***************************************************************************)
(* C3, as the code has it: every benign drop outcome other than AEAD_CHECK *)
(* makes picoquic_incoming_segment return a nonzero value and ends the     *)
(* loop; AEAD_CHECK returns 0, and the loop goes on with the next segment  *)
(* when bytes remain in the datagram.                                      *)
(***************************************************************************)
C3_BenignDropsExceptAeadCheck ==
    (last.index > 0 /\ last.outcome \in BenignDrops) =>
        IF last.outcome = "AEAD_CHECK"
        THEN /\ last.ret = 0
             /\ last.more <=> (last.ph.offset + last.ph.payload_length < last.length)
        ELSE last.ret # 0 /\ ~last.more

(* a segment that failed authentication was dropped and the next one is awaited *)
C3_Witness ==
    /\ last.index > 0
    /\ last.outcome = "AEAD_CHECK"
    /\ last.ret = 0
    /\ last.more
    /\ rx.active

C5_DuplicateAcknowledged ==
    [][(/\ rx' # rx
        /\ last'.found # NoCnx
        /\ last'.found \in DOMAIN cnxs
        /\ ~DecryptFailed(last')
        /\ last'.key # "none"
        /\ last'.ph.pn64 \in cnxs[last'.found].sack[last'.ph.pc]) =>
            /\ last'.outcome = "DUPLICATE"
            /\ last'.handler = "none"
            /\ ~last'.decoded
            /\ ~last'.recorded
            /\ last'.ph.pc \in cnxs'[last'.found].ack_needed
            /\ cnxs'[last'.found].cnx_state = cnxs[last'.found].cnx_state
            /\ cnxs'[last'.found].sack = cnxs[last'.found].sack]_vars

(* a duplicate arrived on a connection that had no acknowledgement to send *)
C5_Witness ==
    /\ last.index > 0
    /\ last.outcome = "DUPLICATE"
    /\ last.decrypt = "DUPLICATE"
    /\ last.ph.pn64 \in cnxs[last.cnx].sack[last.ph.pc]
    /\ cnxs[last.cnx].ack_needed = {last.ph.pc}

(***************************************************************************)
(* C6: a 1-RTT segment for a known connection that fails decryption, is at *)
(* least RESET_PACKET_MIN_SIZE long and ends with the reset secret of the  *)
(* connection disconnects the connection and makes exactly one             *)
(* stateless_reset callback; no frame is decoded, no packet number is      *)
(* recorded.                                                               *)
(***************************************************************************)
IsStatelessReset ==
    /\ last.index > 0
    /\ last.ph.ptype = "1rtt_protected"
    /\ last.ph.cnx # NoCnx
    /\ DecryptFailed(last)
    /\ last.length >= PICOQUIC_RESET_PACKET_MIN_SIZE
    /\ last.seg.tail = cnxs[last.ph.cnx].reset_secret

C6_ResetAlwaysCallsBack ==
    IsStatelessReset =>
        /\ cnxs[last.ph.cnx].cnx_state = "disconnected"
        /\ last.cb = <<"stateless_reset">>
        /\ ~last.decoded
        /\ ~last.recorded

(***************************************************************************)
(* C6, as the code has it: such a segment disconnects the connection,      *)
(* makes exactly one stateless_reset callback when the connection has a    *)
(* callback function and none when it has not; no frame is decoded, no     *)
(* packet number is recorded.                                              *)
(***************************************************************************)
C6_ResetCallsBackIfSet ==
    IsStatelessReset =>
        /\ cnxs[last.ph.cnx].cnx_state = "disconnected"
        /\ last.cb = IF cnxs[last.ph.cnx].callback_fn THEN <<"stateless_reset">> ELSE <<>>
        /\ last.handler = "stateless_reset"
        /\ ~last.decoded
        /\ ~last.recorded

(* the stateless reset of a connection that has a callback function *)
C6_Witness ==
    /\ IsStatelessReset
    /\ cnxs[last.ph.cnx].callback_fn
    /\ last.cb = <<"stateless_reset">>
    /\ cnxs[last.ph.cnx].cnx_state = "disconnected"

(***************************************************************************)
(* C7: when the processing of an Initial segment creates a connection      *)
(* context and ends in an outcome other than success, the registry holds   *)
(* no more connection contexts after the segment than before it.           *)
(***************************************************************************)
C7_FailedInitialLeavesNoContext ==
    [][(rx' # rx /\ last'.created /\ last'.outcome # "OK") =>
            DOMAIN cnxs' \subseteq DOMAIN cnxs]_vars

(***************************************************************************)
(* C8: a connection context is created only for a segment that parses as   *)
(* an Initial and matches no connection, in a datagram of at least         *)
(* ENFORCED_INITIAL_MTU bytes, with a destination connection ID of at      *)
(* least ENFORCED_INITIAL_CID_LENGTH bytes; in a shorter datagram such an  *)
(* Initial ends in INITIAL_TOO_SHORT, with a shorter connection ID in      *)
(* INITIAL_CID_TOO_SHORT, both without creating a context; no other        *)
(* segment adds a context to the registry.                                 *)
(***************************************************************************)
UnmatchedInitial(l) == l.decrypt # "PARSE" /\ l.ph.ptype = "initial" /\ l.ph.cnx = NoCnx

C8_CreationOnlyFromValidInitial ==
    [][rx' # rx =>
        /\ (last'.created \/ ~(DOMAIN cnxs' \subseteq DOMAIN cnxs)) =>
              /\ last'.created
              /\ UnmatchedInitial(last')
              /\ last'.seg.form = "long" /\ last'.seg.tbits = "initial"
              /\ last'.packet_length >= PICOQUIC_ENFORCED_INITIAL_MTU
              /\ CidLen(last'.ph.dest_cnx_id) >= PICOQUIC_ENFORCED_INITIAL_CID_LENGTH
        /\ (UnmatchedInitial(last')
            /\ last'.packet_length < PICOQUIC_ENFORCED_INITIAL_MTU) =>
              /\ last'.outcome = "INITIAL_TOO_SHORT"
              /\ ~last'.created
              /\ cnxs' = cnxs
        /\ (UnmatchedInitial(last')
            /\ last'.packet_length >= PICOQUIC_ENFORCED_INITIAL_MTU
            /\ CidLen(last'.ph.dest_cnx_id) < PICOQUIC_ENFORCED_INITIAL_CID_LENGTH) =>
              /\ last'.outcome = "INITIAL_CID_TOO_SHORT"
              /\ ~last'.created
              /\ cnxs' = cnxs]_vars

(* a full-size Initial with a long enough connection ID made a server context *)
C8_Witness ==
    /\ last.index > 0
    /\ last.created
    /\ last.outcome = "OK"
    /\ last.cnx \in DOMAIN cnxs
    /\ ~cnxs[last.cnx].client_mode
    /\ cnxs[last.cnx].initial_cnxid = last.seg.dcid

(***************************************************************************)
(* C9: a 1-RTT packet whose key phase differs from key_phase_dec and whose *)
(* pn64 is below crypto_rotation_sequence is decrypted with the old key or *)
(* not at all: with the old key only if current_time is at most            *)
(* crypto_rotation_time_guard and the old key exists, otherwise it fails   *)
(* decryption and is dropped; it never changes the keys, the key phase or  *)
(* the rotation sequence and time guard.                                   *)
(***************************************************************************)
RotationFields(c) ==
    <<c.key_cur, c.key_old, c.key_phase_dec, c.crypto_rotation_sequence,
      c.crypto_rotation_time_guard>>

C9_OldPhaseUsesOldKeyOnly ==
    [][(/\ rx' # rx
        /\ last'.ph.ptype = "1rtt_protected"
        /\ last'.ph.cnx # NoCnx
        /\ last'.ph.key_phase # cnxs[last'.ph.cnx].key_phase_dec
        /\ last'.ph.pn64 < cnxs[last'.ph.cnx].crypto_rotation_sequence) =>
            LET pre == cnxs[last'.ph.cnx]
                post == cnxs'[last'.ph.cnx]
                usable == last'.current_time <= pre.crypto_rotation_time_guard
                          /\ pre.key_old # NoKey
            IN  /\ last'.key = IF usable THEN "old" ELSE "none"
                /\ ~usable => (DecryptFailed(last') /\ ~last'.decoded /\ ~last'.recorded)
                /\ RotationFields(post) = RotationFields(pre)
                /\ post.key_new = pre.key_new]_vars

(* a late packet of the previous key phase was decrypted with the old key in time *)
C9_Witness ==
    /\ last.index > 0
    /\ last.key = "old"
    /\ last.outcome = "OK"
    /\ last.recorded
    /\ last.ph.pn64 < cnxs[last.cnx].crypto_rotation_sequence
    /\ last.current_time <= cnxs[last.cnx].crypto_rotation_time_guard

(***************************************************************************)
(* C10: the key rotation is committed exactly when a 1-RTT packet with a   *)
(* key phase other than key_phase_dec and pn64 at or above                 *)
(* crypto_rotation_sequence decrypts with the new key; the commit sets     *)
(* crypto_rotation_sequence to pn64 and crypto_rotation_time_guard to      *)
(* current_time + retransmit_timer, makes the new key current and the      *)
(* former current key old; without a commit the rotation sequence, the     *)
(* time guard, key_phase_dec, the current and the old key are unchanged.   *)
(***************************************************************************)
C10_RotationCommittedOnNewKeySuccess ==
    [][(rx' # rx /\ last'.ph.ptype = "1rtt_protected" /\ last'.ph.cnx # NoCnx) =>
            LET pre == cnxs[last'.ph.cnx]
                post == cnxs'[last'.ph.cnx]
                claims_new == /\ last'.ph.key_phase # pre.key_phase_dec
                              /\ last'.ph.pn64 >= pre.crypto_rotation_sequence
                success == claims_new /\ last'.key = "new" /\ ~DecryptFailed(last')
                committed == post.key_phase_dec # pre.key_phase_dec
            IN  /\ committed <=> success
                /\ committed =>
                      /\ post.crypto_rotation_sequence = last'.ph.pn64
                      /\ post.crypto_rotation_time_guard =
                             last'.current_time + pre.retransmit_timer
                      /\ post.key_cur = pre.key_cur + 1
                      /\ post.key_old = pre.key_cur
                      /\ post.key_phase_dec = last'.ph.key_phase
                      /\ post.key_new = NoKey
                /\ ~committed => RotationFields(post) = RotationFields(pre)]_vars

(* a packet of the next key phase, sealed with the next key, committed the rotation *)
C10_Witness ==
    /\ last.index > 0
    /\ last.key = "new"
    /\ last.outcome = "OK"
    /\ last.ph.pn64 = 2
    /\ cnxs[last.cnx].crypto_rotation_sequence = 2
    /\ cnxs[last.cnx].crypto_rotation_time_guard = last.current_time + 1
    /\ cnxs[last.cnx].key_old = 0
    /\ cnxs[last.cnx].key_cur = 1

(***************************************************************************)
(* C11: picoquic_incoming_retry accepts a Retry only from ClientInitSent   *)
(* or ClientInitResent, with no Retry accepted before (original_cnxid of   *)
(* length zero), with the version the client offered, pn64 = 0 and an      *)
(* ODCID equal to the current initial_cnxid; in every other case it        *)
(* returns UNEXPECTED_PACKET and leaves initial_cnxid, original_cnxid, the *)
(* retry token and the state as they were.  An accepted Retry sets         *)
(* original_cnxid, which no later step clears, so a connection accepts at  *)
(* most one Retry.                                                         *)
(***************************************************************************)
RetryAcceptable(c, l) ==
    /\ c.cnx_state \in {"client_init_sent", "client_init_resent"}
    /\ CidLen(c.original_cnxid) = 0
    /\ l.ph.version_index = 0
    /\ l.ph.pn64 = 0
    /\ l.seg.odcid = c.initial_cnxid

RetryFields(c) == <<c.initial_cnxid, c.original_cnxid, c.retry_token, c.cnx_state>>

C11_RetryAcceptedOnce ==
    [][/\ (last'.index > 0 /\ last'.handler = "retry") =>
            /\ last'.outcome = "RETRY" =>
                  /\ RetryAcceptable(cnxs[last'.cnx], last')
                  /\ CidLen(cnxs'[last'.cnx].original_cnxid) # 0
            /\ ~RetryAcceptable(cnxs[last'.cnx], last') =>
                  /\ last'.outcome = "UNEXPECTED_PACKET"
                  /\ RetryFields(cnxs'[last'.cnx]) = RetryFields(cnxs[last'.cnx])
       /\ \A s \in DOMAIN cnxs \cap DOMAIN cnxs' :
            (cnxs[s].client_mode /\ CidLen(cnxs[s].original_cnxid) # 0)
                => cnxs'[s].original_cnxid = cnxs[s].original_cnxid]_vars

(* a second Retry that meets every other condition, after the client sent its
   Initial again, is refused *)
C11_Witness ==
    /\ last.index > 0
    /\ last.handler = "retry"
    /\ last.outcome = "UNEXPECTED_PACKET"
    /\ cnxs[1].cnx_state = "client_init_sent"
    /\ CidLen(cnxs[1].original_cnxid) # 0
    /\ cnxs[1].retry_token
    /\ last.ph.version_index = 0
    /\ last.ph.pn64 = 0
    /\ last.seg.odcid = cnxs[1].initial_cnxid

(***************************************************************************)
(* C12: a Version Negotiation packet is acted upon only by a client in     *)
(* state ClientInitSent and only if it echoes the connection ID of the     *)
(* client and carries version 0.  In every other state, or when the echo   *)
(* check fails, the connection is left as it was and no callback is made.  *)
(***************************************************************************)
VersionNegotiationStep(l) ==
    l.index > 0 /\ l.ph.ptype = "version_negotiation" /\ l.found # NoCnx

VersionNegotiationActedUpon(c, l) ==
    /\ c.client_mode
    /\ c.cnx_state = "client_init_sent"
    /\ l.ph.dest_cnx_id = c.local_cnxid
    /\ l.ph.vn = "zero"

(* as stated: whenever the packet is acted upon the version list is delivered to the
   application callback and the connection becomes Disconnected *)
C12_VersionListAlwaysDelivered ==
    [][VersionNegotiationStep(last') =>
          IF VersionNegotiationActedUpon(cnxs[last'.found], last')
          THEN /\ cnxs'[last'.found].cnx_state = "disconnected"
               /\ last'.cb = <<"version_negotiation">>
          ELSE /\ cnxs'[last'.found] = cnxs[last'.found]
               /\ last'.cb = <<>>]_vars

(* as the code does: the connection becomes Disconnected, and the version list is
   delivered if the connection has a callback function and the list is not empty *)
C12_VersionListDeliveredIfAny ==
    [][VersionNegotiationStep(last') =>
          IF VersionNegotiationActedUpon(cnxs[last'.found], last')
          THEN /\ cnxs'[last'.found].cnx_state = "disconnected"
               /\ last'.cb = IF cnxs[last'.found].callback_fn
                                /\ last'.length > last'.ph.offset
                             THEN <<"version_negotiation">> ELSE <<>>
          ELSE /\ cnxs'[last'.found] = cnxs[last'.found]
               /\ last'.cb = <<>>]_vars

C12_Witness ==
    /\ VersionNegotiationStep(last)
    /\ last.handler = "version_negotiation"
    /\ last.cb = <<"version_negotiation">>
    /\ cnxs[last.found].cnx_state = "disconnected"
    /\ cnxs[last.found].client_mode

(***************************************************************************)
(* C13: on a server that checks tokens and is not busy, an Initial with a  *)
(* token that fails verification, for a connection in ServerInit, queues   *)
(* exactly one stateless Retry that carries a newly made token; its frames *)
(* are not decoded and TLS is not run.                                     *)
(***************************************************************************)
TokenRefused(l, reg) ==
    /\ l.index > 0
    /\ l.handler = "client_initial"
    /\ "check_token" \in quic.flags
    /\ "server_busy" \notin quic.flags
    /\ l.seg.token # "valid"
    /\ (l.created \/ reg[l.found].cnx_state = "server_init")

RetryQueued(l) ==
    /\ Len(l.sp) = 1
    /\ l.sp[1].kind = "retry"
    /\ l.sp[1].addr_to = l.addr_from
    /\ l.sp[1].bytes.token = picoquic_prepare_retry_token(l.addr_from, l.ph.dest_cnx_id)
    /\ l.sp[1].bytes.dest_cnx_id = l.ph.srce_cnx_id
    /\ ~l.decoded

ZeroRttCidsMatch(c, ph) ==
    /\ ph.dest_cnx_id = c.initial_cnxid \/ ph.dest_cnx_id = c.local_cnxid
    /\ ph.srce_cnx_id = c.remote_cnxid

ZeroRttState(c) ==
    \/ c.cnx_state \in {"server_almost_ready", "server_false_start"}
    \/ c.cnx_state = "ready" /\ ~c.is_1rtt_received

C14_ZeroRttOnlyBeforeOneRtt ==
    [][/\ (rx' # rx /\ last'.handler = "0rtt") =>
            /\ ~ZeroRttCidsMatch(cnxs[last'.found], last'.ph) =>
                  last'.outcome = "CNXID_CHECK" /\ ~last'.decoded
            /\ (ZeroRttCidsMatch(cnxs[last'.found], last'.ph)
                /\ ~ZeroRttState(cnxs[last'.found])) =>
                  last'.outcome = "UNEXPECTED_PACKET" /\ ~last'.decoded
            /\ last'.decoded =>
                  ZeroRttCidsMatch(cnxs[last'.found], last'.ph)
                  /\ ZeroRttState(cnxs[last'.found])
       /\ \A s \in DOMAIN cnxs \cap DOMAIN cnxs' :
            cnxs[s].is_1rtt_received => cnxs'[s].is_1rtt_received]_vars

(* a server in Ready took a 1-RTT packet, which set is_1rtt_received, and then
   refuses a 0-RTT segment with matching connection IDs *)
C14_Witness ==
    /\ last.index > 0
    /\ last.handler = "0rtt"
    /\ last.outcome = "UNEXPECTED_PACKET"
    /\ rx.packets = 2
    /\ cnxs[1].cnx_state = "ready"
    /\ cnxs[1].is_1rtt_received
    /\ cnxs[1].sack["application"] = {0, 2}
    /\ ZeroRttCidsMatch(cnxs[1], last.ph)

(***************************************************************************)
(* C15: in ClosingReceived, Closing and Draining a 1-RTT segment is only   *)
(* scanned for closing frames: the frame decoder does not run and the path *)
(* is not looked up; a closing frame that is found moves a client to       *)
(* Disconnected and a server to Draining.                                  *)
(***************************************************************************)
ClosingStep(l, reg, states) ==
    /\ l.index > 0
    /\ l.handler = "encrypted"
    /\ reg[l.found].cnx_state \in states

PathFields(c) ==
    <<c.is_1rtt_received, c.path_is_activated, c.alt_peer_addr, c.alt_challenge_required,
      c.alt_challenge_timeout, c.challenge_required>>

ClosingFrameScan(l, c, d) ==
    /\ ~l.decoded
    /\ PathFields(d) = PathFields(c)
    /\ l.seg.frames = "close" =>
          d.cnx_state = IF c.client_mode THEN "disconnected" ELSE "draining"
    /\ l.seg.frames # "close" => d.cnx_state = c.cnx_state

(* as stated: the scan is made in each of the three states *)
C15_ClosingFramesInThreeStates ==
    [][(rx' # rx /\ ClosingStep(last', cnxs, {"closing_received", "closing", "draining"}))
          => ClosingFrameScan(last', cnxs[last'.found], cnxs'[last'.found])]_vars

(* as the code does: the scan is made in Closing; in ClosingReceived and Draining the
   segment is refused as UNEXPECTED_PACKET and the connection is left as it was *)
C15_ClosingFramesInClosingOnly ==
    [][/\ (rx' # rx /\ ClosingStep(last', cnxs, {"closing"}))
            => ClosingFrameScan(last', cnxs[last'.found], cnxs'[last'.found])
       /\ (rx' # rx /\ ClosingStep(last', cnxs, {"closing_received", "draining"}))
            => /\ last'.outcome = "UNEXPECTED_PACKET"
               /\ ~last'.decoded
               /\ cnxs'[last'.found] = cnxs[last'.found]]_vars

C15_Witness ==
    /\ last.index > 0
    /\ last.handler = "encrypted"
    /\ last.seg.frames = "close"
    /\ last.outcome = "OK"
    /\ ~last.decoded
    /\ ~cnxs[1].client_mode
    /\ cnxs[1].cnx_state = "draining"

(***************************************************************************)
(* C16: a short header segment with a non-empty destination connection ID  *)
(* that matches no connection, long enough, queues exactly one stateless   *)
(* reset: first byte 0x30 | (random & 0x1F), a padding of at least         *)
(* RESET_PACKET_PAD_SIZE and at most length - RESET_SECRET_SIZE - 1 bytes, *)
(* then the 16 bytes of the reset secret of the connection ID received.    *)
(* Shorter segments and long header segments queue no stateless reset.     *)
(***************************************************************************)
UnknownShortSegment(l, reg) ==
    /\ l.seg.form = "short"
    /\ l.ph.dest_cnx_id # NullCid
    /\ picoquic_cnx_by_id(reg, l.ph.dest_cnx_id) = NoCnx

StatelessResetQueued(l) ==
    /\ Len(l.sp) = 1
    /\ l.sp[1].kind = "stateless_reset"
    /\ l.sp[1].addr_to = l.addr_from
    /\ l.sp[1].bytes.first_byte \in 48..63
    /\ l.sp[1].bytes.first_byte % 16 = l.random.r64 % 16
    /\ l.sp[1].bytes.pad_size >= PICOQUIC_RESET_PACKET_PAD_SIZE
    /\ l.sp[1].bytes.pad_size <= l.length - PICOQUIC_RESET_SECRET_SIZE - 1
    /\ l.sp[1].bytes.secret = picoquic_create_cnxid_reset_secret(l.seg.dcid)

NoStatelessReset(l) == \A k \in 1..Len(l.sp) : l.sp[k].kind # "stateless_reset"

(* as stated: for every such segment of length >= RESET_PACKET_MIN_SIZE *)
C16_ResetFromMinimumSize ==
    [][rx' # rx =>
          /\ sp_queue' = sp_queue \o last'.sp
          /\ IF UnknownShortSegment(last', cnxs)
                /\ last'.length >= PICOQUIC_RESET_PACKET_MIN_SIZE
             THEN StatelessResetQueued(last')
             ELSE NoStatelessReset(last')]_vars

(* the segment ends with the reset secret of the connection of its source address and
   is taken for a stateless reset of that connection (lines 982-1012) *)
TakenForReset(l, reg) ==
    LET n == picoquic_cnx_by_net(reg, l.addr_from)
    IN  /\ n # NoCnx
        /\ l.length >= PICOQUIC_RESET_PACKET_MIN_SIZE
        /\ l.seg.tail = reg[n].reset_secret

(* as the code does: the segment must be longer than RESET_PACKET_MIN_SIZE, must not
   be taken for a stateless reset of the connection of its source address, and must
   have the destination connection ID of the segments before it in the datagram *)
C16_ResetAboveMinimumSize ==
    [][rx' # rx =>
          /\ sp_queue' = sp_queue \o last'.sp
          /\ IF /\ UnknownShortSegment(last', cnxs)
                /\ last'.length > PICOQUIC_RESET_PACKET_MIN_SIZE
                /\ ~TakenForReset(last', cnxs)
                /\ rx.active => rx.previous_destid \in {NullCid, last'.ph.dest_cnx_id}
             THEN StatelessResetQueued(last')
             ELSE NoStatelessReset(last')]_vars

(* the shortest segment that is answered, and the longest padding *)
C16_Witness ==
    /\ last.index > 0
    /\ last.seg.form = "short"
    /\ last.handler = "none"
    /\ last.sp # <<>>
    /\ last.sp[1].kind = "stateless_reset"
    /\ \/ /\ last.length = PICOQUIC_RESET_PACKET_MIN_SIZE + 1
          /\ last.sp[1].bytes.pad_size = PICOQUIC_RESET_PACKET_PAD_SIZE
       \/ /\ last.length = PICOQUIC_ENFORCED_INITIAL_MTU
          /\ last.sp[1].bytes.pad_size = last.length - PICOQUIC_RESET_SECRET_SIZE - 2

(***************************************************************************)
(* C17: a long header segment with a version that is neither zero nor      *)
(* supported queues a Version Negotiation packet, and only in a datagram   *)
(* of at least ENFORCED_INITIAL_MTU bytes: high bit of the first byte set, *)
(* version 0, the SCID received as destination and the DCID received as    *)
(* source, every supported version, then one grease version that is not    *)
(* the version of the segment.  A supported version never does.            *)
(***************************************************************************)
UnsupportedVersionSegment(l) ==
    /\ l.seg.form = "long"
    /\ l.length >= LongBaseOffset(l.seg)
    /\ l.seg.vn # "zero"
    /\ picoquic_get_version_index(l.seg.vn) < 0

VersionNegotiationQueued(l) ==
    /\ Len(l.sp) = 1
    /\ l.sp[1].kind = "version_negotiation"
    /\ l.sp[1].addr_to = l.addr_from
    /\ l.sp[1].bytes.first_byte \in 128..255
    /\ l.sp[1].bytes.vn = "zero"
    /\ l.sp[1].bytes.dest_cnx_id = l.seg.scid
    /\ l.sp[1].bytes.srce_cnx_id = l.seg.dcid
    /\ Len(l.sp[1].bytes.versions) = 3
    /\ \A v \in {"ok", "other", "bad", "grease1", "grease2"} :
          picoquic_get_version_index(v) >= 0 =>
              l.sp[1].bytes.versions[picoquic_get_version_index(v) + 1] = v
    /\ l.sp[1].bytes.versions[3] \in {"grease1", "grease2"} \ {l.seg.vn}

NoVersionNegotiation(l) == \A k \in 1..Len(l.sp) : l.sp[k].kind # "version_negotiation"

Notified(kinds) == path_x' # path_x /\ path_x'.note.notification \in kinds

EntersRecovery ==
    /\ Notified({"ecn_ec", "repeat", "timeout"})
    /\ LossIsNew([path_x EXCEPT !.highest_acknowledged = path_x'.highest_acknowledged],
                 path_x'.current_time)

(* the ssthresh computed from the W_max that picoquic_cubic_enter_recovery left *)
ComputedSsthresh(p) == (((p.congestion_alg_state.W_max * 7) \div 8) * p.send_mtu) \div FP

C19_StateAfterEnterRecovery ==
    [][EntersRecovery =>
          LET after == path_x'.congestion_alg_state
          IN  /\ after.recovery_sequence = path_x'.send_sequence
              /\ after.start_of_epoch = path_x'.current_time
              /\ IF ComputedSsthresh(path_x') < PICOQUIC_CWIN_MINIMUM
                 THEN /\ after.alg_state = "slow_start"
                      /\ path_x'.cwin = PICOQUIC_CWIN_MINIMUM
                      /\ after.W_reno = PICOQUIC_CWIN_MINIMUM * FP
                      /\ after.ssthresh = UINT64_MAX
                 ELSE IF path_x'.note.notification = "timeout"
                 THEN /\ after.alg_state = "slow_start"
                      /\ path_x'.cwin = PICOQUIC_CWIN_MINIMUM
                      /\ after.ssthresh = U64Of(ComputedSsthresh(path_x'))
                 ELSE /\ after.alg_state = "congestion_avoidance"
                      /\ after.ssthresh = U64Of(ComputedSsthresh(path_x'))]_vars

(* a loss on a window of two packets: the threshold computed is below the minimum *)
C19_Witness ==
    /\ path_x.notified > 1
    /\ path_x.note.notification \in {"ecn_ec", "repeat"}
    /\ path_x.congestion_alg_state.alg_state = "slow_start"
    /\ ComputedSsthresh(path_x) < PICOQUIC_CWIN_MINIMUM
    /\ path_x.congestion_alg_state.ssthresh = UINT64_MAX
    /\ path_x.congestion_alg_state.start_of_epoch = path_x.current_time
    /\ path_x.congestion_alg_state.recovery_sequence = path_x.send_sequence
    /\ path_x.cwin = PICOQUIC_CWIN_MINIMUM

(***************************************************************************)
(* C20: in the recovery state, while less than a round trip has passed     *)
(* since start_of_epoch and recovery_sequence is above the highest packet  *)
(* acknowledged, a notification other than spurious_repeat changes none of *)
(* cwin, ssthresh and alg_state; spurious_repeat always runs               *)
(* picoquic_cubic_correct_spurious.                                        *)
(***************************************************************************)
InRecovery == path_x' # path_x /\ path_x.congestion_alg_state.alg_state = "recovery"

RecoveryGuard ==
    ~LossIsNew([path_x EXCEPT !.highest_acknowledged = path_x'.highest_acknowledged],
               path_x'.current_time)

WindowUnchanged ==
    /\ path_x'.cwin = path_x.cwin
    /\ path_x'.congestion_alg_state.ssthresh = path_x.congestion_alg_state.ssthresh
    /\ path_x'.congestion_alg_state.alg_state = path_x.congestion_alg_state.alg_state

SpuriousCorrected ==
    /\ path_x'.congestion_alg_state.alg_state = "congestion_avoidance"
    /\ path_x'.congestion_alg_state.W_max = path_x.congestion_alg_state.W_last_max
    /\ path_x'.congestion_alg_state.start_of_epoch =
           path_x.congestion_alg_state.previous_start_of_epoch
    /\ path_x'.congestion_alg_state.ssthresh = U64Of(ComputedSsthresh(path_x'))
    /\ path_x'.cwin = path_x'.congestion_alg_state.W_reno \div FP

SpuriousAfterRecovery == Notified({"spurious_repeat"}) /\ path_x.before_recovery.cwin > 0

EpochRewound ==
    /\ path_x'.congestion_alg_state.alg_state = "congestion_avoidance"
    /\ path_x'.congestion_alg_state.start_of_epoch =
           path_x.congestion_alg_state.previous_start_of_epoch

AvoidanceAcknowledgement ==
    /\ Notified({"acknowledgement"})
    /\ path_x.congestion_alg_state.alg_state = "congestion_avoidance"

C24_ConstantTimeMemcmp ==
    ("op" \in DOMAIN last /\ last.op = "memcmp" /\ last.done) =>
        /\ (last.ret = 0) <=> (SubSeq(last.x, 1, last.l) = SubSeq(last.y, 1, last.l))
        /\ last.read = last.l

(* strings that differ in their first byte, and whose differences add up to 256 *)
C24_Witness ==
    /\ "op" \in DOMAIN last /\ last.op = "memcmp" /\ last.done
    /\ last.l = MaxCmpLen
    /\ last.x[1] = 128 /\ last.y[1] = 0 /\ last.x[2] = 128 /\ last.y[2] = 0
    /\ last.x[3] = last.y[3]
    /\ last.ret = 256
    /\ last.read = MaxCmpLen

(***************************************************************************)
(* C25: picoquic_frames_varint_encode writes a value below 2^62 in the     *)
(* shortest of the 1, 2, 4 and 8 byte forms, the two high bits of the      *)
(* first byte being the length class and the rest the value, so that       *)
(* decoding yields the value; when the form does not fit it returns NULL   *)
(* and writes nothing; a value of 2^62 or more is refused with NULL.       *)
(***************************************************************************)
VarintEncoded == "op" \in DOMAIN last /\ last.op = "varint_encode" /\ last.done

VarintClass(n64) ==
    IF U64Lt(n64, U64Of(64)) THEN 0
    ELSE IF U64Lt(n64, U64Of(16384)) THEN 1
    ELSE IF U64Lt(n64, U64Of(1073741824)) THEN 2 ELSE 3

VarintWritten ==
    /\ last.ret = last.bytes + 2 ^ VarintClass(last.n64)
    /\ last.buf[last.bytes] \div 64 = VarintClass(last.n64)
    /\ \A i \in DOMAIN last.buf : (i < last.bytes \/ i >= last.ret) => last.buf[i] = last.before[i]
    /\ picoquic_frames_varint_decode(last.buf, last.bytes, last.ret) =
           [bytes |-> last.ret, n64 |-> last.n64]

VarintRefused == last.ret = NULL /\ last.buf = last.before

C25_VarintEncode ==
    VarintEncoded =>
        IF last.n64[7] >= 64 THEN VarintRefused
        ELSE IF last.bytes + 2 ^ VarintClass(last.n64) <= last.bytes_max THEN VarintWritten
        ELSE VarintRefused

(* what holds of the code: the part on the values below 2^62 *)
C25_VarintEncodeBelow62 ==
    (VarintEncoded /\ last.n64[7] < 64) =>
        IF last.bytes + 2 ^ VarintClass(last.n64) <= last.bytes_max THEN VarintWritten
        ELSE VarintRefused

(***************************************************************************)
(* C26: whenever picoquic_parse_packet_header returns 0, whatever the      *)
(* packet type, ph.offset + ph.payload_length is at most the length of the *)
(* segment; this still holds after the header protection is removed and    *)
(* after the decryption.                                                   *)
(***************************************************************************)
HeaderWithin(ph, length) == ph.offset + ph.payload_length <= length

(* the header as parsed, before any protection is removed *)
ParsedHeader == picoquic_parse_packet_header(cnxs, last'.seg, last'.length, last'.addr_from)

(* the context whose keys remove the protection: the one the parser found, or the
   one created for an acceptable Initial; NoCnx when no protection is removed *)
ProtectionContext ==
    IF ParsedHeader.ptype \in {"version_negotiation", "retry"} THEN [reg |-> cnxs, cnx |-> NoCnx]
    ELSE IF ParsedHeader.cnx # NoCnx THEN [reg |-> cnxs, cnx |-> ParsedHeader.cnx]
    ELSE IF ParsedHeader.ptype = "initial"
            /\ InitialAcceptance(ParsedHeader, last'.packet_length) = "OK"
    THEN picoquic_create_cnx(cnxs, ParsedHeader.dest_cnx_id, ParsedHeader.srce_cnx_id,
                             last'.addr_from, quic.default_callback_fn)
    ELSE [reg |-> cnxs, cnx |-> NoCnx]

HeaderUnprotected ==
    picoquic_remove_header_protection(ProtectionContext.reg[ProtectionContext.cnx],
                                      last'.seg, ParsedHeader)

C26_PayloadWithinSegment ==
    [][((rx' # rx \/ last' # last) /\ ParsedHeader.ret = 0) =>
          /\ HeaderWithin(ParsedHeader, last'.length)
          /\ ProtectionContext.cnx # NoCnx =>
                 /\ HeaderWithin(HeaderUnprotected.ph, last'.length)
                 /\ HeaderUnprotected.ph.offset + HeaderUnprotected.ph.payload_length
                        = ParsedHeader.offset + ParsedHeader.payload_length
          /\ HeaderWithin(last'.ph, last'.length)
          /\ (last'.decrypt = "OK" /\ last'.key # "none") =>
                 /\ last'.ph.offset = HeaderUnprotected.ph.offset
                 /\ last'.ph.payload_length < HeaderUnprotected.ph.payload_length]_vars

(* a packet that ends before the end of the datagram was decrypted: the packet
   number and the checksum are no longer part of the payload *)
C26_Witness ==
    /\ "decrypt" \in DOMAIN last
    /\ last.decrypt = "OK"
    /\ last.key # "none"
    /\ last.ph.offset = last.ph.pn_offset + last.seg.pn_l
    /\ last.ph.payload_length = PlainLen(last.seg.frames)
    /\ last.ph.offset + last.ph.payload_length + AeadChecksumLength < last.length

(***************************************************************************)
(* C27: when the header protection sample, taken at pn_offset + 4, would   *)
(* end beyond the segment, the removal of the header protection fails: the *)
(* header is poisoned (pn = 0xFFFFFFFF, offset = pn_offset), the AEAD      *)
(* decryption of the segment is not attempted and the segment is dropped.  *)
(***************************************************************************)
SampleBeyondSegment ==
    /\ ParsedHeader.ret = 0
    /\ ProtectionContext.cnx # NoCnx
    /\ HasEpochKey(ProtectionContext.reg[ProtectionContext.cnx], ParsedHeader.epoch)
    /\ ParsedHeader.pn_offset + 4 + PnIvSize > ParsedHeader.offset + ParsedHeader.payload_length

C27_ShortSampleSkipsDecryption ==
    [][(last' # last /\ SampleBeyondSegment) =>
          /\ last'.ph.pn = PnUnset
          /\ last'.ph.offset = last'.ph.pn_offset
          /\ HeaderUnprotected.ret # 0
          /\ last'.key = "none"
          /\ last'.decrypt # "OK"]_vars

(* what holds of the code: the header is poisoned and the segment is dropped, after
   a decryption that fails *)
C27_ShortSampleIsDropped ==
    [][(last' # last /\ SampleBeyondSegment) =>
          /\ last'.ph.pn = PnUnset
          /\ last'.ph.offset = last'.ph.pn_offset
          /\ HeaderUnprotected.ret = 0
          /\ last'.key # "none"
          /\ last'.decrypt = "AEAD_CHECK"]_vars

(***************************************************************************)
(* C28: after the header protection is removed, has_reserved_bit_set is    *)
(* set exactly for the long header packets whose first byte b0, without    *)
(* its mask, has (b0 & 0x18) != 0; a short header packet never gets it.    *)
(***************************************************************************)
HeaderProtectionRemoved ==
    /\ ParsedHeader.ret = 0
    /\ ProtectionContext.cnx # NoCnx
    /\ HeaderUnprotected.ret = 0
    /\ HeaderUnprotected.ph.pn # PnUnset

C28_ReservedBitsOfLongHeaders ==
    [][(last' # last /\ HeaderProtectionRemoved) =>
          (HeaderUnprotected.ph.has_reserved_bit_set
              <=> (last'.seg.form = "long" /\ ReservedBits(last'.seg)))]_vars

(* as the code does: exactly for the short header packets *)
C28_ReservedBitsOfShortHeaders ==
    [][/\ (last' # last /\ HeaderProtectionRemoved) =>
              (HeaderUnprotected.ph.has_reserved_bit_set
                  <=> (last'.seg.form = "short" /\ ReservedBits(last'.seg)))
       /\ (last' # last /\ ~HeaderProtectionRemoved) => ~last'.ph.has_reserved_bit_set
       /\ (last' # last /\ last'.decrypt = "OK" /\ last'.key # "none") =>
              (last'.ph.has_reserved_bit_set
                  <=> (last'.seg.form = "short" /\ ReservedBits(last'.seg)))]_vars

(* a short header packet with a reserved bit set was decrypted *)
C28_Witness ==
    /\ "decrypt" \in DOMAIN last
    /\ last.decrypt = "OK"
    /\ last.seg.form = "short"
    /\ last.seg.rsv
    /\ last.ph.has_reserved_bit_set

(***************************************************************************)
(* C29: a connection that the lookup of a long header packet finds by the  *)
(* source address only is discarded when the packet type requires a match  *)
(* by connection ID: a server keeps it only for an Initial or 0-RTT packet *)
(* whose destination connection ID is the initial_cnxid of the connection, *)
(* a client only if its local connection ID has zero length.               *)
(***************************************************************************)
(* the connection of the source address, when the destination connection ID of the
   long header packet of a supported version names no connection *)
FoundByAddressOnly ==
    IF /\ ParsedHeader.ret = 0
       /\ last'.seg.form = "long"
       /\ ParsedHeader.ptype \in {"initial", "0rtt_protected", "handshake", "retry"}
       /\ (CidLen(last'.seg.dcid) = 0 \/ picoquic_cnx_by_id(cnxs, last'.seg.dcid) = NoCnx)
    THEN picoquic_cnx_by_net(cnxs, last'.addr_from)
    ELSE NoCnx

KeptByAddress(c, ph) ==
    IF c.client_mode THEN CidLen(c.local_cnxid) = 0
    ELSE ph.ptype \in {"initial", "0rtt_protected"} /\ c.initial_cnxid = ph.dest_cnx_id

C29_AddressMatchDiscarded ==
    [][(last' # last /\ FoundByAddressOnly # NoCnx) =>
          ParsedHeader.cnx = IF KeptByAddress(cnxs[FoundByAddressOnly], ParsedHeader)
                             THEN FoundByAddressOnly ELSE NoCnx]_vars

(* a Handshake packet for an unknown connection ID came from the address of the
   peer of a server connection, which was not taken for the packet's *)
C29_Witness ==
    /\ "decrypt" \in DOMAIN last
    /\ last.seg.form = "long" /\ last.seg.tbits = "handshake"
    /\ last.ph.ptype = "handshake"
    /\ cnxs # <<>>
    /\ ~cnxs[1].client_mode
    /\ cnxs[1].peer_addr = last.addr_from
    /\ last.seg.dcid # cnxs[1].local_cnxid
    /\ last.ph.cnx = NoCnx
    /\ last.cnx = NoCnx

(***************************************************************************)
(* C30: a 1-RTT packet arrives on a path that has a remote connection ID,  *)
(* from an address that is neither the path's nor its alt address.         *)
(* picoquic_find_incoming_path installs the address as the alt address and *)
(* requires a new challenge on the main and on the alt set only if there   *)
(* is no alt address or the alt challenge timeout has passed, and pn64 is  *)
(* above the largest packet number received; otherwise the alt address,    *)
(* the alt challenge state and the main challenge state stay as they were. *)
(***************************************************************************)
ThirdAddress ==
    /\ last.done
    /\ last.ph.dest_cnx_id = last.before.local_cnxid
    /\ last.addr_from # last.before.peer_addr
    /\ last.addr_from # last.before.alt_peer_addr

AltInstalled ==
    /\ cnxs[1].alt_peer_addr = last.addr_from
    /\ cnxs[1].alt_challenge_required
    /\ cnxs[1].alt_challenge_timeout = 0
    /\ cnxs[1].challenge_required

AltUnchanged ==
    /\ cnxs[1].alt_peer_addr = last.before.alt_peer_addr
    /\ cnxs[1].alt_challenge_required = last.before.alt_challenge_required
    /\ cnxs[1].alt_challenge_timeout = last.before.alt_challenge_timeout
    /\ cnxs[1].challenge_required = last.before.challenge_required

(* the packet number is above every packet number received in the 1-RTT space *)
NewestPacket ==
    \A n \in last.before.sack["application"] : last.ph.pn64 > n

C30_AltInstalledAfterTimeout ==
    ThirdAddress =>
        IF /\ \/ last.before.alt_peer_addr = 0
              \/ last.current_time > last.before.alt_challenge_timeout
           /\ NewestPacket
        THEN AltInstalled
        ELSE AltUnchanged

(* what holds of the code: the alt address is replaced while its challenge timeout
   is still ahead, and the packet number may equal the highest one received *)
C30_AltInstalledBeforeTimeout ==
    ThirdAddress =>
        IF /\ \/ last.before.alt_peer_addr = 0
              \/ last.before.alt_challenge_timeout > last.current_time
           /\ last.ph.pn64 >= end_of_sack_range(last.before, "application")
        THEN AltInstalled
        ELSE AltUnchanged

(***************************************************************************)
(* C31: every RTT sample accepted by picoquic_hystart_test that is not an  *)
(* excess sample (one after which sample_min > rtt_filtered_min and        *)
(* (sample_min - rtt_filtered_min) * 4 > rtt_filtered_min) resets          *)
(* nb_rtt_excess to 0.                                                     *)
(***************************************************************************)
ExcessSample(rtt_track) ==
    /\ rtt_track.sample_min > rtt_track.rtt_filtered_min
    /\ (rtt_track.sample_min - rtt_track.rtt_filtered_min) * 4 > rtt_track.rtt_filtered_min

(* as stated *)
C31_NonExcessSampleResets ==
    (path_x.accepted /\ ~ExcessSample(path_x.rtt_track)) => path_x.rtt_track.nb_rtt_excess = 0

(* as the code does: the count is reset only by a sample that leaves the lowest of
   the window above the filtered minimum, by no more than a quarter of it; a sample
   that brings the lowest of the window down to the filtered minimum keeps the count *)
C31_SampleAboveMinimumResets ==
    /\ (/\ path_x.accepted
        /\ path_x.rtt_track.is_init
        /\ path_x.rtt_track.sample_min > path_x.rtt_track.rtt_filtered_min
        /\ ~ExcessSample(path_x.rtt_track)) => path_x.rtt_track.nb_rtt_excess = 0
    /\ path_x.ret = 1 => (/\ path_x.accepted
                          /\ ExcessSample(path_x.rtt_track)
                          /\ path_x.rtt_track.nb_rtt_excess >= PICOQUIC_MIN_MAX_RTT_SCOPE)

(* a sample at the filtered minimum was accepted after samples in excess, and the
   count of these is kept *)
C31_CountKept ==
    /\ path_x.accepted
    /\ path_x.rtt_track.is_init
    /\ path_x.rtt_track.sample_min = path_x.rtt_track.rtt_filtered_min
    /\ path_x.rtt_track.nb_rtt_excess > 0

(***************************************************************************)
(* C32: a client in ClientInitSent or ClientInitResent that receives its   *)
(* first Initial from the server leaves that state for the handshake,      *)
(* copies the server's source connection ID into path[0].remote_cnxid and  *)
(* records the local address in path[0].local_addr; every later server     *)
(* Initial whose source connection ID differs from path[0].remote_cnxid is *)
(* rejected with CNXID_CHECK and its frames are not decoded.               *)
(***************************************************************************)
(* an Initial packet that was decrypted for a client and is addressed to its local
   connection ID *)
ServerInitial(l, reg) ==
    /\ l.index > 0
    /\ l.found \in DOMAIN reg
    /\ l.cnx = l.found
    /\ reg[l.found].client_mode
    /\ l.decrypt = "OK"
    /\ l.outcome # "CNXID_SEGMENT"
    /\ l.ph.ptype = "initial"
    /\ l.ph.dest_cnx_id = reg[l.found].local_cnxid

FirstServerInitial(l, reg) ==
    /\ ServerInitial(l, reg)
    /\ reg[l.found].cnx_state \in {"client_init_sent", "client_init_resent"}
    /\ reg[l.found].remote_cnxid = NullCid

LaterServerInitial(l, reg) ==
    /\ ServerInitial(l, reg)
    /\ reg[l.found].remote_cnxid # NullCid
    /\ reg[l.found].remote_cnxid # l.ph.srce_cnx_id

(* as stated *)
C32_FirstInitialRecordsAddress ==
    [][/\ (rx' # rx /\ FirstServerInitial(last', cnxs)) =>
              /\ last'.handler = "server_initial"
              /\ cnxs'[last'.found].cnx_state \notin {"client_init_sent", "client_init_resent"}
              /\ cnxs'[last'.found].remote_cnxid = last'.ph.srce_cnx_id
              /\ cnxs'[last'.found].local_addr = AddrTo
       /\ (rx' # rx /\ LaterServerInitial(last', cnxs)) =>
              /\ last'.outcome = "CNXID_CHECK"
              /\ ~last'.decoded]_vars

(* as the code does: picoquic_incoming_segment has copied a source connection ID that
   is not null before it calls picoquic_incoming_server_initial, which then finds
   path[0].remote_cnxid set and does not store the local address; it also refuses the
   later Initial itself, with UNEXPECTED_PACKET, and no handler runs *)
C32_FirstInitialCopiesCnxid ==
    [][/\ (rx' # rx /\ FirstServerInitial(last', cnxs)) =>
              /\ last'.handler = "server_initial"
              /\ cnxs'[last'.found].cnx_state \notin {"client_init_sent", "client_init_resent"}
              /\ cnxs'[last'.found].remote_cnxid = last'.ph.srce_cnx_id
              /\ cnxs'[last'.found].local_addr =
                     IF last'.ph.srce_cnx_id = NullCid THEN AddrTo
                     ELSE cnxs[last'.found].local_addr
       /\ (rx' # rx /\ LaterServerInitial(last', cnxs)) =>
              /\ last'.outcome = "UNEXPECTED_PACKET"
              /\ last'.handler = "none"
              /\ ~last'.decoded
              /\ cnxs'[last'.found].remote_cnxid = cnxs[last'.found].remote_cnxid
              /\ cnxs'[last'.found].cnx_state = cnxs[last'.found].cnx_state]_vars

(* the first Initial of the server was handled, and the local address is not stored *)
C32_AddressNotStored ==
    /\ last.index > 0
    /\ last.handler = "server_initial"
    /\ last.found # NoCnx
    /\ last.found \in DOMAIN cnxs
    /\ cnxs[last.found].cnx_state = "client_handshake_start"
    /\ cnxs[last.found].remote_cnxid = last.ph.srce_cnx_id
    /\ cnxs[last.found].local_addr = 0

(***************************************************************************)
(* C33: in every state of the algorithm, an ecn_ec, repeat or timeout      *)
(* notification runs picoquic_cubic_enter_recovery if and only if          *)
(* current_time - start_of_epoch > smoothed_rtt or recovery_sequence <=    *)
(* the highest acknowledged packet number; otherwise cwin, ssthresh,       *)
(* W_max, W_last_max, start_of_epoch and alg_state are unchanged.  Hence   *)
(* a loss notified right after a picoquic_cubic_enter_recovery, within one *)
(* smoothed RTT and before the packet numbered recovery_sequence is        *)
(* acknowledged, does not reduce cwin a second time.                       *)
(***************************************************************************)
LossNotified == Notified({"ecn_ec", "repeat", "timeout"})

(* the path as picoquic_cubic_notify finds it in the step *)
NotifiedPath ==
    [path_x EXCEPT !.send_sequence = path_x'.send_sequence,
                   !.highest_acknowledged = path_x'.highest_acknowledged]

SameController(p, q) ==
    /\ p.cwin = q.cwin
    /\ p.congestion_alg_state.ssthresh = q.congestion_alg_state.ssthresh
    /\ p.congestion_alg_state.W_max = q.congestion_alg_state.W_max
    /\ p.congestion_alg_state.W_last_max = q.congestion_alg_state.W_last_max
    /\ p.congestion_alg_state.start_of_epoch = q.congestion_alg_state.start_of_epoch
    /\ p.congestion_alg_state.alg_state = q.congestion_alg_state.alg_state

(* the last notification ran picoquic_cubic_enter_recovery *)
JustEnteredRecovery(p) ==
    /\ p.note.notification \in {"ecn_ec", "repeat", "timeout"}
    /\ p.congestion_alg_state.start_of_epoch = p.current_time
    /\ p.congestion_alg_state.recovery_sequence = p.send_sequence

C34_LoopAdvancesOrStops ==
    [][(rx' # rx /\ last'.index > 0) =>
          LET before == IF rx.active THEN rx.consumed_index ELSE 0
          IN  /\ last'.length = last'.packet_length - before
              /\ last'.length > 0
              /\ last'.consumed_index <= last'.packet_length
              /\ IF last'.more
                 THEN /\ rx'.active
                      /\ rx'.consumed_index >= before + 1
                      /\ rx'.consumed_index < rx'.packet_length
                      /\ rx'.packet_length = last'.packet_length
                 ELSE /\ ~rx'.active
                      /\ last'.incoming_ret = 0
                      /\ last'.ret = 0 => last'.consumed_index = last'.packet_length]_vars

(* the loop went on after a first segment, and a second segment that is refused
   stopped it before the end of the datagram *)
C34_Witness ==
    /\ last.index = 2
    /\ ~last.more
    /\ last.ret # 0
    /\ last.consumed_index \in 1..(last.packet_length - 1)
    /\ last.incoming_ret = 0

(***************************************************************************)
(* C35: Disconnected is absorbing under incoming traffic: once the state   *)
(* of a connection is Disconnected, no incoming segment of any type        *)
(* (Version Negotiation, Retry, Initial, Handshake, 0-RTT, 1-RTT,          *)
(* stateless reset) changes cnx_state, has its frames decoded, or has its  *)
(* packet number recorded.                                                 *)
(***************************************************************************)
Disconnected(reg) == {i \in DOMAIN reg : reg[i].cnx_state = "disconnected"}

C35_DisconnectedIsAbsorbing ==
    [][(rx' # rx /\ last'.index > 0) =>
          \A i \in Disconnected(cnxs) :
              /\ i \in DOMAIN cnxs'
              /\ cnxs'[i].cnx_state = "disconnected"
              /\ cnxs'[i].sack = cnxs[i].sack
              /\ (last'.found = i \/ last'.cnx = i) => (~last'.decoded /\ ~last'.recorded)]_vars

(* the kinds of segment that reached a disconnected connection: the handler that
   refused it, or the stateless reset *)
SegmentForDisconnected(ptypes, outcome) ==
    /\ last.index > 0
    /\ last.cnx \in DOMAIN cnxs
    /\ last.cnx = last.found
    /\ cnxs[last.cnx].cnx_state = "disconnected"
    /\ last.ph.ptype \in ptypes
    /\ last.outcome = outcome
    /\ ~last.decoded
    /\ ~last.recorded

(* a 1-RTT packet was decrypted for a disconnected connection and refused *)
C35_Witness ==
    /\ SegmentForDisconnected({"1rtt_protected"}, "UNEXPECTED_PACKET")
    /\ last.index = 1
    /\ last.decrypt = "OK"
    /\ last.handler = "encrypted"

(***************************************************************************)
(* C36: crypto_rotation_sequence never decreases over any sequence of      *)
(* received 1-RTT packets: it changes only when a rotation is committed,   *)
(* and a rotation is committed only by a packet with pn64 at or above the  *)
(* current crypto_rotation_sequence, which becomes the new value.          *)
(***************************************************************************)
C36_RotationSequenceNeverDecreases ==
    [][\A i \in DOMAIN cnxs :
           /\ i \in DOMAIN cnxs'
           /\ cnxs'[i].crypto_rotation_sequence >= cnxs[i].crypto_rotation_sequence
           /\ cnxs'[i].key_cur # cnxs[i].key_cur =>
                  /\ rx' # rx
                  /\ last'.cnx = i
                  /\ last'.ph.ptype = "1rtt_protected"
                  /\ last'.ph.pn64 >= cnxs[i].crypto_rotation_sequence
                  /\ cnxs'[i].crypto_rotation_sequence = last'.ph.pn64
           /\ cnxs'[i].key_cur = cnxs[i].key_cur =>
                  cnxs'[i].crypto_rotation_sequence = cnxs[i].crypto_rotation_sequence]_vars

(* a second rotation was committed, by a packet above the sequence of the first *)
C36_Witness ==
    /\ last.index > 0
    /\ last.key = "new"
    /\ last.outcome = "OK"
    /\ cnxs[last.cnx].key_cur = 2
    /\ cnxs[last.cnx].key_old = 1
    /\ cnxs[last.cnx].crypto_rotation_sequence = last.ph.pn64
    /\ last.ph.pn64 = 2

(***************************************************************************)
(* C37: starting from picoquic_cubic_init, after any sequence of           *)
(* notifications (acknowledgement, ecn_ec, repeat, timeout,                *)
(* spurious_repeat, rtt_measurement) alg_state is slow start or congestion *)
(* avoidance: the recovery state is never entered, since                   *)
(* picoquic_cubic_enter_recovery always leaves the controller in slow      *)
(* start or congestion avoidance.                                          *)
(***************************************************************************)
C37_RecoveryStateNeverEntered ==
    path_x.congestion_alg_state.alg_state \in {"slow_start", "congestion_avoidance"}

(* picoquic_cubic_enter_recovery has run on a timeout and left slow start, and has
   run on a repeat and left congestion avoidance *)
C37_Witness ==
    /\ path_x.notified >= 2
    /\ JustEnteredRecovery(path_x)
    /\ path_x.before_recovery.cwin > PICOQUIC_CWIN_MINIMUM
    /\ path_x.congestion_alg_state.ssthresh # UINT64_MAX
    /\ path_x.congestion_alg_state.alg_state =
           IF path_x.note.notification = "timeout" THEN "slow_start"
           ELSE "congestion_avoidance"

(***************************************************************************)
(* C38: every stateless reset queued by picoquic_process_unexpected_cnxid  *)
(* is strictly shorter than the segment that triggered it (1 + pad +       *)
(* RESET_SECRET_SIZE < length) and at least RESET_PACKET_MIN_SIZE bytes    *)
(* long, so that two endpoints that answer each other's packets with       *)
(* stateless resets stop after finitely many exchanges.                    *)
(***************************************************************************)
ResetsQueued(l) == {k \in 1..Len(l.sp) : l.sp[k].kind = "stateless_reset"}

(* as stated *)
C38_ResetShorterThanSegment ==
    [][(rx' # rx /\ last'.index > 0) =>
          \A k \in ResetsQueued(last') :
              /\ StatelessResetLength(last'.sp[k]) < last'.length
              /\ StatelessResetLength(last'.sp[k]) >= PICOQUIC_RESET_PACKET_MIN_SIZE]_vars

(* as the code does: the reset is never longer than the segment, and it is as long as
   the segment when this is one byte above RESET_PACKET_MIN_SIZE, the shortest
   segment that is answered; such a reset is itself answered by a reset of the same
   length *)
C38_ResetNotLongerThanSegment ==
    [][(rx' # rx /\ last'.index > 0) =>
          \A k \in ResetsQueued(last') :
              /\ StatelessResetLength(last'.sp[k]) <= last'.length
              /\ StatelessResetLength(last'.sp[k]) = last'.length <=>
                     last'.length = PICOQUIC_RESET_PACKET_MIN_SIZE + 1
              /\ StatelessResetLength(last'.sp[k]) > PICOQUIC_RESET_PACKET_MIN_SIZE]_vars

(* a segment was answered by a stateless reset of its own length *)
C38_ResetOfSameLength ==
    /\ last.index > 0
    /\ last.sp # <<>>
    /\ last.sp[1].kind = "stateless_reset"
    /\ StatelessResetLength(last.sp[1]) = last.length

(***************************************************************************)
(* C39: a stateless reset built as picoquic_process_unexpected_cnxid       *)
(* builds it, received from the peer address of a connection whose         *)
(* path[0].reset_secret is its trailing 16 bytes, is classified as         *)
(* STATELESS_RESET by picoquic_parse_header_and_decrypt and disconnects    *)
(* the connection, with non-empty and with zero-length local connection    *)
(* IDs.                                                                    *)
(***************************************************************************)
(* the reset received in the step comes from the peer address of connection 1 and
   ends with its reset secret; the random bytes where the receiver reads a
   connection ID are not a connection ID of the receiver *)
ResetOfPeerReceived ==
    /\ rx' # rx
    /\ last'.seg.form = "short"
    /\ last'.addr_from = cnxs[1].peer_addr
    /\ last'.length >= PICOQUIC_RESET_PACKET_MIN_SIZE
    /\ last'.seg.tail = cnxs[1].reset_secret
    /\ picoquic_cnx_by_id(cnxs, last'.seg.dcid) = NoCnx

(* as stated *)
C39_ResetRoundTripDisconnects ==
    [][ResetOfPeerReceived =>
           /\ last'.decrypt = "STATELESS_RESET"
           /\ cnxs'[1].cnx_state = "disconnected"]_vars

(* as the code does: the reset is recognised when the receiver issues non-empty
   connection IDs; a receiver with zero-length connection IDs finds the connection
   by the address while it parses the header, the fixed bit of the first byte
   0x30 | 5 bits is clear, and the packet is dropped with the connection unchanged *)
C39_ResetRecognisedWithLocalCnxidOnly ==
    [][ResetOfPeerReceived =>
           IF quic.local_cnxid_length > 0
           THEN /\ last'.decrypt = "STATELESS_RESET"
                /\ last'.cnx = 1
                /\ cnxs'[1].cnx_state = "disconnected"
           ELSE /\ last'.decrypt = "PARSE"
                /\ last'.ph.ptype = "error"
                /\ cnxs' = cnxs]_vars

(* a reset of the peer was received over non-empty connection IDs and disconnected
   the connection *)
C39_ResetDisconnected ==
    /\ last.index = 1
    /\ quic.local_cnxid_length > 0
    /\ last.decrypt = "STATELESS_RESET"
    /\ last.seg.tail = cnxs[1].reset_secret
    /\ last.addr_from = cnxs[1].peer_addr
    /\ cnxs[1].cnx_state = "disconnected"

(* a reset of the peer was received over zero-length connection IDs and the
   connection is still ready *)
C39_ResetDroppedWithZeroLengthCnxid ==
    /\ last.index = 1
    /\ quic.local_cnxid_length = 0
    /\ last.seg.tail = cnxs[1].reset_secret
    /\ last.addr_from = cnxs[1].peer_addr
    /\ last.length >= PICOQUIC_RESET_PACKET_MIN_SIZE
    /\ last.decrypt # "STATELESS_RESET"
    /\ cnxs[1].cnx_state = "ready"

(***************************************************************************)
(* C40: picoquic_parse_hexa never reads beyond input_length characters of  *)
(* its input and never writes more than output_max bytes to bin_output;    *)
(* when input_length is odd or above 2 * output_max it returns 0 without   *)
(* writing; so picoquic_parse_connection_id_hexa never writes outside the  *)
(* 20-byte id array of the connection ID.                                  *)
(***************************************************************************)
ParsedHexa == last.op = "parse_hexa" /\ last.done

ParsedConnectionIdHexa == last.op = "parse_connection_id_hexa" /\ last.done

(* as stated *)
C40_ParseHexaStaysInBounds ==
    /\ ParsedHexa =>
         /\ last.read <= last.input_length
         /\ last.written <= last.output_max
         /\ (last.input_length % 2 = 1 \/ last.input_length > 2 * last.output_max) =>
                /\ last.ret = 0
                /\ last.written = 0
                /\ last.out = last.before
    /\ ParsedConnectionIdHexa => last.written <= PICOQUIC_CONNECTION_ID_MAX_SIZE

(* as the code does: the test before the loop is true for every input_length, so
   output_max has no effect; the loop reads the characters in pairs, one character
   beyond an odd input_length, and writes one byte for each pair of hexadecimal
   digits until a pair that is not one *)
C40_ParseHexaIgnoresOutputMax ==
    /\ ParsedHexa =>
         /\ last.read <= last.input_length + 1
         /\ last.read > last.input_length =>
                last.input_length % 2 = 1 /\ last.written = (last.input_length - 1) \div 2
                                                            + (IF last.ret = 0 THEN 0 ELSE 1)
         /\ last.written <= (last.input_length + 1) \div 2
         /\ last.ret \in {0, last.written}
         /\ \A i \in last.written..(HexOutMem - 1) : last.out[i] = last.before[i]
         /\ \A om \in 0..2 :
                picoquic_parse_hexa(last.hex_input, last.input_length, last.before, om).out
                    = last.out
    /\ ParsedConnectionIdHexa =>
         /\ last.written <= (last.input_length + 1) \div 2
         /\ last.ret \in {0, last.written}

(* a call with an odd input_length read the character after the input, wrote a byte
   and returned 0 *)
C40_OddLengthReadBeyondInput ==
    /\ ParsedHexa
    /\ last.input_length % 2 = 1
    /\ last.read = last.input_length + 1
    /\ last.written > 0
    /\ last.ret = 0

(* a call wrote more than output_max bytes *)
C40_WroteBeyondOutputMax ==
    /\ ParsedHexa
    /\ last.input_length % 2 = 0
    /\ last.written > last.output_max
    /\ last.ret = last.written

(* 42 hexadecimal digits were parsed into a connection ID: 21 bytes were written *)
C40_WroteOutsideIdArray ==
    /\ ParsedConnectionIdHexa
    /\ last.input_length = 42
    /\ last.written = 21
    /\ last.ret = 21

====
